---- MODULE Spec2Model ----
(***************************************************************************)
(* Verification model of the website crawler (itxRishabh/webcrawler):      *)
(* SSRF guard, fetcher, file storage, URL frontier and crawl engine.       *)
(* Every component has its own variables and its own specification; the   *)
(* variables of the other components stay at their initial value.          *)
(***************************************************************************)
EXTENDS Integers, Sequences, FiniteSets, TLC

VARIABLES
    \* ---- SSRF guard (security/ssrf.ts) ----
    gUrl,       \* the URL handed to validateUrlForSSRF
    gDns,       \* what dns.resolve4 answers for its hostname
    gVerdict,   \* the SSRFValidationResult, or NoVerdict before the call
    \* ---- Fetcher (crawler/fetcher.ts) ----
    fOpts,      \* options: followRedirects, maxRedirects
    fAborted,   \* Fetcher.aborted
    fpc,        \* where the fetch call stands
    fUrl,       \* the url argument of fetch
    fAttempt,   \* the attempt argument of fetchWithRetry
    fCur,       \* currentUrl
    fRedirects, \* redirectCount
    fChain,     \* redirectChain
    fChecked,   \* URLs the guard declared safe in this attempt
    fSent,      \* URLs requested in this attempt
    fStatus,    \* response.status of the attempt's last response, 0 before it
    requests,   \* history: every URL an HTTP request was sent to
    fBlocked,   \* history: attempts of the call answered 403, 503 or a bot page
    fOutcome,   \* the FetchOutcome, or NoOutcome
    \* ---- FileStorage (storage/filesystem.ts) and the disk ----
    sInputs,      \* the relative paths callers pass in this run
    sCfgMax,      \* config.maxTotalSizeBytes
    sOptMax,      \* options.maxTotalSize of the job
    sFiles,       \* the disk: real path (segments) -> size of the file
    sDirs,        \* the disk: directories (segments)
    sCreatedDirs, \* FileStorage.createdDirs
    sStats,       \* FileStorage.stats
    wpc,          \* per writeFile call: where it stands
    wRel,         \* per writeFile call under way: relativePath
    wSize,        \* per writeFile call under way: contentSize
    wRes,         \* per writeFile call: how the last call ended
    rdRes,        \* how the last readFile call ended
    \* ---- UrlQueue (crawler/queue.ts) ----
    qOptions,     \* UrlQueue.options
    qSeedUrl,     \* UrlQueue.seedUrl
    queue,        \* UrlQueue.queue: normalized URL -> QueuedUrl
    pendingUrls,  \* UrlQueue.pendingUrls
    qVia,         \* history: which operation enqueued each entry
    qLast,        \* history: the last add / addAsset call and what it returned
    qOps,         \* history: number of calls made by the caller so far
    \* ---- CrawlEngine (crawler/engine.ts) ----
    eStatus,         \* CrawlEngine.status
    eAborted,        \* CrawlEngine.aborted (Fetcher.aborted is set with it)
    ePoolPaused,     \* the fetcher pool is paused
    eDisallowed,     \* URLs robotsRules.isAllowed answers false for
    lpc,             \* per start() call: where its crawlLoop stands
    lActive,         \* per start() call: activeFetches of its crawlLoop
    lWait,           \* per start() call: the promises Promise.race waits on
    tasks,           \* processUrl calls under way, by entry
    eStored,         \* final URLs whose body storage.writeFile has stored
    pagesProcessed,  \* CrawlEngine.pagesProcessed
    assetsProcessed, \* CrawlEngine.assetsProcessed
    eErrors,         \* CrawlEngine.errors
    eFiles,          \* the job's files: local path -> final URL whose body it holds
    eRewritten,      \* the files rewriteAllLinks rewrote and wrote back
    lResult,         \* per start() call: the CrawlResult it returned
    eFinalOf,        \* history: entry -> final URL its fetch ended at
    eCancelCalled,   \* history: cancel() was called
    \* ---- LinkRewriter (rewriter/index.ts) ----
    urlToPath,    \* LinkRewriter.urlToPath: normalized URL -> local path
    pathToUrl,    \* LinkRewriter.pathToUrl: local path -> normalized URL
    usedPaths,    \* LinkRewriter.usedPaths
    rLast,        \* history: the last registerUrl call and how it ended
    rOps,         \* history: number of calls made by the caller so far
    \* ---- parsers (crawler/parsers/html.ts, css.ts) ----
    hPageUrl,     \* the URL the page was fetched from
    hPagePath,    \* the local path the page is stored under
    hHtml,        \* the page: its nodes that carry URL references
    hCss,         \* a stylesheet: its nodes that carry URL references
    hMap,         \* urlToLocalPath: normalized URL -> local path
    hLinks,       \* what parseHtml returned, <<>> before the call
    hOut,         \* what rewriteHtmlLinks returned, <<>> before the call
    hCssOut,      \* what rewriteCssUrls returned, <<>> before the call
    \* ---- one run of the engine on a seed, with its fetcher ----
    respectRobotsTxt, \* options.respectRobotsTxt
    seedDns,          \* what the resolver answers for the seed's host
    \* ---- normalizeUrl (utils/url.ts) applied repeatedly ----
    nUrl,         \* the URL string normalizeUrl is first called with
    nResults,     \* what the successive calls returned
    \* ---- the size checks of one attempt (crawler/fetcher.ts) ----
    maxFileSize,  \* options.maxFileSize
    bDeclared,    \* the Content-Length header: NoHeader, NotANumber or a number
    bChunks,      \* the chunks the server still has to send, by length
    bTotal,       \* totalSize
    bKept,        \* the lengths of the chunks pushed on `chunks`
    bReads,       \* history: reader.read() calls that returned
    bCancelled,   \* history: reader.cancel() was called
    bpc,          \* where the attempt stands
    bOutcome,     \* what the attempt returned, NoOutcome before
    \* ---- Fetcher.fetch calls of one host under a clock ----
    now,              \* Date.now(), in seconds
    rateLimitedUntil, \* Fetcher.rateLimitedUntil for the host, 0 when absent
    calls,            \* the fetch calls: where each stands and when it wakes
    sentAt            \* history: the last request that left for the host: when it
                      \* left and the rateLimitedUntil entry of that moment

guardVars == <<gUrl, gDns, gVerdict>>
fetchVars == <<fOpts, fAborted, fpc, fUrl, fAttempt, fCur, fRedirects, fChain,
               fChecked, fSent, fStatus, requests, fBlocked, fOutcome>>

storageVars == <<sInputs, sCfgMax, sOptMax, sFiles, sDirs, sCreatedDirs, sStats,
                 wpc, wRel, wSize, wRes, rdRes>>

queueVars == <<qOptions, qSeedUrl, queue, pendingUrls, qVia, qLast, qOps>>

engineVars == <<eStatus, eAborted, ePoolPaused, eDisallowed, lpc, lActive, lWait,
                tasks, eStored, pagesProcessed, assetsProcessed, eErrors, eFiles,
                eRewritten, lResult, eFinalOf, eCancelCalled>>

rewriterVars == <<urlToPath, pathToUrl, usedPaths, rLast, rOps>>

parserVars == <<hPageUrl, hPagePath, hHtml, hCss, hMap, hLinks, hOut, hCssOut>>

runVars == <<respectRobotsTxt, seedDns>>

normVars == <<nUrl, nResults>>

bodyVars == <<maxFileSize, bDeclared, bChunks, bTotal, bKept, bReads, bCancelled, bpc,
              bOutcome>>

rateVars == <<now, rateLimitedUntil, calls, sentAt>>

vars == <<guardVars, fetchVars, storageVars, queueVars, engineVars, rewriterVars,
          parserVars, runVars, normVars, bodyVars, rateVars>>

notGuard == <<fetchVars, storageVars, queueVars, engineVars, rewriterVars, parserVars,
    runVars, normVars, bodyVars, rateVars>>
notFetch == <<guardVars, storageVars, queueVars, engineVars, rewriterVars, parserVars,
    runVars, normVars, bodyVars, rateVars>>
notStorage == <<guardVars, fetchVars, queueVars, engineVars, rewriterVars, parserVars,
    runVars, normVars, bodyVars, rateVars>>
notQueue == <<guardVars, fetchVars, storageVars, engineVars, rewriterVars, parserVars,
    runVars, normVars, bodyVars, rateVars>>
notEngine == <<guardVars, fetchVars, storageVars, parserVars,
    runVars, normVars, bodyVars, rateVars>>
notRewriter == <<guardVars, fetchVars, storageVars, queueVars, engineVars, parserVars,
    runVars, normVars, bodyVars, rateVars>>
notParser == <<guardVars, fetchVars, storageVars, queueVars, engineVars, rewriterVars,
    runVars, normVars, bodyVars, rateVars>>

(***************************************************************************)
(* The state of a component no specification is exercising                 *)
(***************************************************************************)
GuardIdle ==
    /\ gUrl = <<>> /\ gDns = <<>> /\ gVerdict = <<>>

FetchIdle ==
    /\ fOpts = <<>> /\ fAborted = FALSE /\ fpc = "idle" /\ fUrl = <<>>
    /\ fAttempt = 0 /\ fCur = <<>> /\ fRedirects = 0 /\ fChain = <<>>
    /\ fChecked = {} /\ fSent = {} /\ fStatus = 0 /\ requests = {} /\ fBlocked = 0
    /\ fOutcome = <<>>

StorageIdle ==
    /\ sInputs = {} /\ sCfgMax = 0 /\ sOptMax = 0 /\ sFiles = <<>> /\ sDirs = {}
    /\ sCreatedDirs = {} /\ sStats = <<>> /\ wpc = <<>> /\ wRel = <<>> /\ wSize = <<>>
    /\ wRes = <<>> /\ rdRes = <<>>

QueueIdle ==
    /\ qOptions = <<>> /\ qSeedUrl = <<>> /\ queue = <<>> /\ pendingUrls = <<>>
    /\ qVia = <<>> /\ qLast = <<>> /\ qOps = 0

EngineIdle ==
    /\ eStatus = "pending" /\ eAborted = FALSE /\ ePoolPaused = FALSE
    /\ eDisallowed = {} /\ lpc = <<>> /\ lActive = <<>> /\ lWait = <<>>
    /\ tasks = <<>> /\ eStored = {} /\ pagesProcessed = 0 /\ assetsProcessed = 0
    /\ eErrors = <<>> /\ eFiles = <<>> /\ eRewritten = {} /\ lResult = <<>>
    /\ eFinalOf = <<>> /\ eCancelCalled = FALSE

RewriterIdle ==
    /\ urlToPath = <<>> /\ pathToUrl = <<>> /\ usedPaths = {} /\ rLast = <<>>
    /\ rOps = 0

ParserIdle ==
    /\ hPageUrl = <<>> /\ hPagePath = <<>> /\ hHtml = <<>> /\ hCss = <<>>
    /\ hMap = <<>> /\ hLinks = <<>> /\ hOut = <<>> /\ hCssOut = <<>>

RunIdle ==
    /\ respectRobotsTxt = FALSE /\ seedDns = <<>>

NormIdle ==
    /\ nUrl = <<>> /\ nResults = <<>>

BodyIdle ==
    /\ maxFileSize = 0 /\ bDeclared = <<>> /\ bChunks = <<>> /\ bTotal = 0
    /\ bKept = <<>> /\ bReads = 0 /\ bCancelled = FALSE /\ bpc = <<>>
    /\ bOutcome = <<>>

RateIdle ==
    /\ now = 0 /\ rateLimitedUntil = 0 /\ calls = <<>> /\ sentAt = <<>>

(***************************************************************************)
(* Bounds                                                                  *)
(***************************************************************************)
\* longest list of A records a resolution returns
MaxAddrs == 2
\* largest maxRedirects option tried
MaxRedirectsOpt == 1
\* longest relative path (in characters) handed to the storage
MaxPathLen == 5
\* largest size ceiling tried, in size units
MaxTotal == 3
\* largest content size of one write, in size units
MaxBytes == 2
\* writeFile calls that may be under way at once
NumWriters == 2
\* successful writes of one run
MaxWrites == 2
\* largest maxPages option tried
MaxPagesOpt == 4
\* calls a caller makes on one UrlQueue
MaxQueueOps == 3
\* largest maxRetries argument of UrlQueue.retry
MaxRetryArg == 1
\* largest concurrency option tried
MaxConcurrency == 2
\* start() calls on one engine
MaxStarts == 2
\* calls a caller makes on one LinkRewriter
MaxRegs == 4

(***************************************************************************)
(* URLs.  A parsed URL is a record; BadUrl is a string `new URL` throws on.*)
(* A hostname is a DNS name (its labels), a literal IPv4 address or a      *)
(* bracketed IPv6 literal.                                                 *)
(***************************************************************************)
\* the one member of a set of one value
The(S) == CHOOSE x \in S : TRUE

Name(labels) == [kind |-> "name", labels |-> labels, ip |-> <<>>]
Ip4(a, b, c, d) == [kind |-> "ip4", labels |-> <<>>, ip |-> <<a, b, c, d>>]
Ip6(text) == [kind |-> "ip6", labels |-> <<text>>, ip |-> <<>>]

Url(protocol, hostname, port, pathname, search, hash) ==
    [valid |-> TRUE, protocol |-> protocol, hostname |-> hostname, port |-> port,
     pathname |-> pathname, search |-> search, hash |-> hash]

BadUrl ==
    [valid |-> FALSE, protocol |-> "", hostname |-> Name(<<>>), port |-> "",
     pathname |-> <<>>, search |-> <<>>, hash |-> ""]

(***************************************************************************)
(* SSRF guard                                                              *)
(***************************************************************************)
\* config.allowedProtocols when ALLOWED_PROTOCOLS is not set
allowedProtocols == {"http", "https"}

\* ipToNumber: the unsigned 32-bit value ((a<<24)|(b<<16)|(c<<8)|d) >>> 0,
\* kept as its two 16-bit halves <<high, low>>; <<-1, -1>> is the code's -1.
ipToNumber(ip) ==
    IF Len(ip) # 4 \/ \E i \in 1..Len(ip) : ip[i] < 0 \/ ip[i] > 255
    THEN <<-1, -1>>
    ELSE <<ip[1] * 256 + ip[2], ip[3] * 256 + ip[4]>>

\* a <= b on the halves representation
NumLeq(a, b) == a[1] < b[1] \/ (a[1] = b[1] /\ a[2] <= b[2])

BLOCKED_IP_RANGES ==
    { [start |-> ipToNumber(<<127, 0, 0, 0>>),       end |-> ipToNumber(<<127, 255, 255, 255>>)],
      [start |-> ipToNumber(<<10, 0, 0, 0>>),        end |-> ipToNumber(<<10, 255, 255, 255>>)],
      [start |-> ipToNumber(<<172, 16, 0, 0>>),      end |-> ipToNumber(<<172, 31, 255, 255>>)],
      [start |-> ipToNumber(<<192, 168, 0, 0>>),     end |-> ipToNumber(<<192, 168, 255, 255>>)],
      [start |-> ipToNumber(<<169, 254, 0, 0>>),     end |-> ipToNumber(<<169, 254, 255, 255>>)],
      [start |-> ipToNumber(<<255, 255, 255, 255>>), end |-> ipToNumber(<<255, 255, 255, 255>>)],
      [start |-> ipToNumber(<<0, 0, 0, 0>>),         end |-> ipToNumber(<<0, 255, 255, 255>>)] }

BLOCKED_HOSTS ==
    { <<"localhost">>, <<"localhost", "localdomain">>,
      <<"metadata", "google", "internal">>, <<"metadata", "gke", "internal">> }

BLOCKED_METADATA_IPS == { <<169, 254, 169, 254>> }

isPrivateIP(ip) ==
    LET ipNum == ipToNumber(ip) IN
    IF ipNum = <<-1, -1>> THEN TRUE
    ELSE IF \E range \in BLOCKED_IP_RANGES :
                NumLeq(range.start, ipNum) /\ NumLeq(ipNum, range.end)
         THEN TRUE
         ELSE ip \in BLOCKED_METADATA_IPS

isBlockedHost(hostname) ==
    \/ hostname.kind = "name" /\ hostname.labels \in BLOCKED_HOSTS
    \/ hostname.kind = "ip4" /\ isPrivateIP(hostname.ip)
    \/ hostname.kind = "ip6" /\ hostname.labels = <<"[::1]">>

\* The answer of dns.resolve4: a rejection, or a list of IPv4 addresses.
DnsFail == [ok |-> FALSE, addresses |-> <<>>]
DnsOk(addresses) == [ok |-> TRUE, addresses |-> addresses]

Safe(ip) == [safe |-> TRUE, reason |-> "", resolvedIP |-> ip]
Unsafe(reason) == [safe |-> FALSE, reason |-> reason, resolvedIP |-> <<>>]

\* mutant: only the first resolved address is checked
validateUrlForSSRF_first(urlString, allowed, dns) ==
    IF ~urlString.valid THEN Unsafe("Invalid URL format")
    ELSE IF urlString.protocol \notin allowed THEN Unsafe("Protocol not allowed")
    ELSE IF isBlockedHost(urlString.hostname) THEN Unsafe("Hostname is blocked")
    ELSE IF urlString.hostname.kind = "ip4"
         THEN IF isPrivateIP(urlString.hostname.ip)
              THEN Unsafe("IP is in a private/reserved range")
              ELSE Safe(urlString.hostname.ip)
    ELSE IF ~dns.ok THEN Unsafe("DNS resolution failed")
    ELSE IF Len(dns.addresses) = 0 THEN Unsafe("Could not resolve hostname")
    ELSE IF isPrivateIP(dns.addresses[1])
         THEN Unsafe("Resolved IP is in a private/reserved range")
    ELSE Safe(dns.addresses[1])

validateUrlForSSRF(urlString, allowed, dns) ==
    IF ~urlString.valid THEN Unsafe("Invalid URL format")
    ELSE IF urlString.protocol \notin allowed THEN Unsafe("Protocol not allowed")
    ELSE IF isBlockedHost(urlString.hostname) THEN Unsafe("Hostname is blocked")
    ELSE IF urlString.hostname.kind = "ip4"
         THEN IF isPrivateIP(urlString.hostname.ip)
              THEN Unsafe("IP is in a private/reserved range")
              ELSE Safe(urlString.hostname.ip)
    ELSE IF ~dns.ok THEN Unsafe("DNS resolution failed")
    ELSE IF Len(dns.addresses) = 0 THEN Unsafe("Could not resolve hostname")
    ELSE IF \E i \in 1..Len(dns.addresses) : isPrivateIP(dns.addresses[i])
         THEN Unsafe("Resolved IP is in a private/reserved range")
    ELSE Safe(dns.addresses[1])

(***************************************************************************)
(* Inputs of the guard                                                     *)
(***************************************************************************)
\* octets around every boundary of the blocked ranges
Octet1 == {0, 1, 9, 10, 11, 126, 127, 128, 169, 171, 172, 173, 192, 193, 254, 255}
Octet2 == {0, 15, 16, 31, 32, 167, 168, 169, 253, 254, 255}
Octet3 == {0, 169, 255}
Octet4 == {0, 254, 255}
GridIPs == { <<a, b, c, d>> : a \in Octet1, b \in Octet2, c \in Octet3, d \in Octet4 }

\* addresses a resolver may return
DnsIPs ==
    { <<8, 8, 8, 8>>, <<1, 1, 1, 1>>, <<10, 0, 0, 5>>, <<127, 0, 0, 1>>,
      <<172, 16, 0, 1>>, <<172, 32, 0, 1>>, <<192, 168, 1, 1>>,
      <<169, 254, 169, 254>>, <<0, 0, 0, 0>>, <<255, 255, 255, 255>>,
      <<128, 0, 0, 1>>, <<172, 15, 255, 255>> }

SeqsUpTo(S, n) == UNION { [1..k -> S] : k \in 0..n }

DnsAnswers == {DnsFail} \cup { DnsOk(a) : a \in SeqsUpTo(DnsIPs, MaxAddrs) }

GuardHosts ==
    { Name(<<"a", "test">>), Name(<<"internal", "test">>), Name(<<"localhost">>),
      Name(<<"localhost", "localdomain">>), Name(<<"metadata", "google", "internal">>),
      Name(<<"metadata", "gke", "internal">>), Ip6("[::1]"), Ip6("[fd00:ec2::254]") }
        \cup { [kind |-> "ip4", labels |-> <<>>, ip |-> ip] : ip \in GridIPs }

GuardUrls ==
    {BadUrl} \cup
    { Url(p, h, "", <<"/">>, <<>>, "") : p \in {"http", "https", "ftp", "file"}, h \in GuardHosts }

NoVerdict == [safe |-> FALSE, reason |-> "not called", resolvedIP |-> <<>>]

\* the resolver is consulted for names only, so literal addresses are paired
\* with one answer
GuardInit ==
    /\ gUrl \in GuardUrls
    /\ gDns \in (IF gUrl.hostname.kind = "ip4" THEN {DnsFail} ELSE DnsAnswers)
    /\ gVerdict = NoVerdict
    /\ FetchIdle
    /\ StorageIdle
    /\ QueueIdle
    /\ EngineIdle
    /\ RewriterIdle
    /\ ParserIdle
    /\ RunIdle
    /\ NormIdle
    /\ BodyIdle
    /\ RateIdle

\* one call of validateUrlForSSRF(gUrl, config.allowedProtocols)
Validate ==
    /\ gVerdict = NoVerdict
    /\ gVerdict' = validateUrlForSSRF(gUrl, allowedProtocols, gDns)
    /\ UNCHANGED <<gUrl, gDns>>
    /\ UNCHANGED notGuard

GuardNext == Validate

SpecGuard == GuardInit /\ [][GuardNext]_vars

(***************************************************************************)
(* C2                                                                      *)
(***************************************************************************)
\* the blocked ranges as the claim lists them, on the octets
InBlockedCidr(ip) ==
    \/ ip[1] = 127
    \/ ip[1] = 10
    \/ ip[1] = 172 /\ ip[2] >= 16 /\ ip[2] <= 31
    \/ ip[1] = 192 /\ ip[2] = 168
    \/ ip[1] = 169 /\ ip[2] = 254
    \/ ip[1] = 0
    \/ ip = <<255, 255, 255, 255>>

\* C2: validateUrlForSSRF answers safe only for a URL that parses, has an
\* allowed protocol and a host outside the block-list, and whose literal IPv4
\* host, or every A record resolved for its name, lies outside 127/8, 10/8,
\* 172.16/12, 192.168/16, 169.254/16, 0/8 and 255.255.255.255; a failed or
\* empty resolution, or one blocked address among several, is unsafe.
C2_SafeOnlyIfAllChecksPass ==
    gVerdict.safe =>
        /\ gUrl.valid
        /\ gUrl.protocol \in allowedProtocols
        /\ ~(gUrl.hostname.kind = "name" /\ gUrl.hostname.labels \in BLOCKED_HOSTS)
        /\ gUrl.hostname.kind = "ip4" => ~InBlockedCidr(gUrl.hostname.ip)
        /\ gUrl.hostname.kind # "ip4" =>
              /\ gDns.ok
              /\ Len(gDns.addresses) > 0
              /\ \A i \in 1..Len(gDns.addresses) : ~InBlockedCidr(gDns.addresses[i])

\* a name that resolved to two public addresses was declared safe
C2_Witness ==
    /\ gVerdict.safe
    /\ gUrl.hostname.kind = "name"
    /\ Len(gDns.addresses) = 2

(***************************************************************************)
(* Fetcher: one call of fetch(url)                                         *)
(***************************************************************************)
\* fetchWithRetry: const maxRetries = 5
maxRetries == 5

FU_p    == Url("http", Name(<<"a", "test">>), "", <<"/", "p">>, <<>>, "")
FU_q    == Url("http", Name(<<"a", "test">>), "", <<"/", "q">>, <<>>, "")
FU_meta == Url("http", Ip4(169, 254, 169, 254), "", <<"/">>, <<>>, "")
FU_ftp  == Url("ftp", Name(<<"a", "test">>), "", <<"/", "f">>, <<>>, "")

\* URLs the engine may hand to fetch, and targets a server may redirect to
FetchUrls == {FU_p, FU_meta, FU_ftp}
RedirectTargets == {FU_p, FU_q, FU_meta}

\* what the resolver may answer during a crawl; it may change between calls
FetchDns == {DnsFail, DnsOk(<<<<8, 8, 8, 8>>>>), DnsOk(<<<<8, 8, 8, 8>>, <<10, 0, 0, 5>>>>)}

ThrownKinds == {"timeout", "network", "other"}
BodyKinds == {"ok", "declared-too-large", "stream-too-large", "no-body", "read-error",
              "bot-page"}

NoUrl == BadUrl

NoOutcome == [success |-> FALSE, error |-> "pending", code |-> "", retryable |-> FALSE,
              finalUrl |-> NoUrl, status |-> 0, isRedirect |-> FALSE, redirectChain |-> <<>>]

FetchErr(error, code) ==
    [success |-> FALSE, error |-> error, code |-> code, retryable |-> FALSE,
     finalUrl |-> NoUrl, status |-> 0, isRedirect |-> FALSE, redirectChain |-> <<>>]

FetchOk(finalUrl, status, chain) ==
    [success |-> TRUE, error |-> "", code |-> "", retryable |-> FALSE,
     finalUrl |-> finalUrl, status |-> status, isRedirect |-> Len(chain) > 0,
     redirectChain |-> chain]

FetchInit ==
    /\ fOpts \in [followRedirects : BOOLEAN, maxRedirects : 0..MaxRedirectsOpt]
    /\ fAborted = FALSE
    /\ fpc = "idle"
    /\ fUrl = NoUrl
    /\ fAttempt = 0
    /\ fCur = NoUrl
    /\ fRedirects = 0
    /\ fChain = <<>>
    /\ fChecked = {}
    /\ fSent = {}
    /\ fStatus = 0
    /\ requests = {}
    /\ fBlocked = 0
    /\ fOutcome = NoOutcome
    /\ GuardIdle
    /\ StorageIdle
    /\ QueueIdle
    /\ EngineIdle
    /\ RewriterIdle
    /\ ParserIdle
    /\ RunIdle
    /\ NormIdle
    /\ BodyIdle
    /\ RateIdle

\* the call ends with this outcome
Finish(outcome) ==
    /\ fpc' = "done"
    /\ fOutcome' = outcome

\* fetchWithRetry(url, referer, attempt + 1), entered after the wait
Retry ==
    /\ fpc' = "retry-wait"
    /\ UNCHANGED fOutcome

\* fetch(url): the abort check, then the rate-limit and jitter delays
FetchCall(url) ==
    /\ fpc = "idle"
    /\ fUrl' = url
    /\ IF fAborted
       THEN Finish(FetchErr("Fetcher aborted", ""))
       ELSE /\ fpc' = "delay"
            /\ UNCHANGED fOutcome
    /\ UNCHANGED <<fOpts, fAborted, fAttempt, fCur, fRedirects, fChain, fChecked, fSent,
                   fStatus, requests>>
    /\ UNCHANGED fBlocked
    /\ UNCHANGED notFetch

\* the delays are over: this.queue.add(...)
PoolAdd ==
    /\ fpc = "delay"
    /\ fpc' = "queued"
    /\ UNCHANGED <<fOpts, fAborted, fUrl, fAttempt, fCur, fRedirects, fChain, fChecked,
                   fSent, fOutcome, fStatus, requests>>
    /\ UNCHANGED fBlocked
    /\ UNCHANGED notFetch

\* the pool starts the task: fetchWithRetry(url, referer, 1)
PoolStart ==
    /\ fpc = "queued"
    /\ fpc' = "ssrf"
    /\ fAttempt' = 1
    /\ fBlocked' = 0
    /\ UNCHANGED <<fOpts, fAborted, fUrl, fCur, fRedirects, fChain, fChecked, fSent,
                   fOutcome, fStatus, requests>>
    /\ UNCHANGED notFetch

\* mutant: the attempt goes on after an unsafe verdict on the original URL
SsrfCheck_ignored(dns) ==
    /\ fpc = "ssrf"
    /\ fpc' = "request"
    /\ fChecked' = IF validateUrlForSSRF(fUrl, allowedProtocols, dns).safe
                   THEN {fUrl} ELSE {}
    /\ fSent' = {}
    /\ fStatus' = 0
    /\ UNCHANGED requests
    /\ fCur' = fUrl
    /\ fRedirects' = 0
    /\ fChain' = <<>>
    /\ UNCHANGED <<fOpts, fAborted, fUrl, fAttempt, fOutcome>>
    /\ UNCHANGED fBlocked
    /\ UNCHANGED notFetch

\* an attempt begins: the SSRF check of url, then redirectChain = [],
\* currentUrl = url, redirectCount = 0
SsrfCheck(dns) ==
    /\ fpc = "ssrf"
    /\ fSent' = {}
    /\ fStatus' = 0
    /\ UNCHANGED requests
    /\ LET ssrfResult == validateUrlForSSRF(fUrl, allowedProtocols, dns) IN
       IF ~ssrfResult.safe
       THEN /\ Finish(FetchErr(ssrfResult.reason, ""))
            /\ fChecked' = {}
            /\ UNCHANGED <<fCur, fRedirects, fChain>>
       ELSE /\ fpc' = "request"
            /\ fChecked' = {fUrl}
            /\ fCur' = fUrl
            /\ fRedirects' = 0
            /\ fChain' = <<>>
            /\ UNCHANGED fOutcome
    /\ UNCHANGED <<fOpts, fAborted, fUrl, fAttempt>>
    /\ UNCHANGED fBlocked
    /\ UNCHANGED notFetch

\* response = await fetch(currentUrl, ...): the request leaves
Request ==
    /\ fpc = "request"
    /\ fSent' = fSent \cup {fCur}
    /\ requests' = requests \cup {fCur}
    /\ fpc' = "inflight"
    /\ UNCHANGED <<fOpts, fAborted, fUrl, fAttempt, fCur, fRedirects, fChain, fChecked,
                   fOutcome, fStatus>>
    /\ UNCHANGED fBlocked
    /\ UNCHANGED notFetch

\* mutant: a timeout or network error is retried whatever the attempt
Thrown_unbounded(kind) ==
    LET isTimeout == kind = "timeout"
        isNetwork == kind = "network"
    IN IF isTimeout \/ isNetwork
       THEN Retry
       ELSE Finish(FetchErr("thrown", "UNKNOWN"))

\* the catch block: a timeout or network error is retried while attempt < 5
Thrown(kind) ==
    LET isTimeout == kind = "timeout"
        isNetwork == kind = "network"
        retryable == (isTimeout \/ isNetwork) /\ fAttempt < maxRetries
    IN IF retryable
       THEN Retry
       ELSE Finish(FetchErr("thrown",
                IF isTimeout THEN "TIMEOUT" ELSE IF isNetwork THEN "NETWORK" ELSE "UNKNOWN"))

\* the request fails: fetch rejects
RequestFails(kind) ==
    /\ fpc = "inflight"
    /\ Thrown(kind)
    /\ UNCHANGED <<fOpts, fAborted, fUrl, fAttempt, fCur, fRedirects, fChain, fChecked,
                   fSent, fStatus, requests>>
    /\ UNCHANGED fBlocked
    /\ UNCHANGED notFetch

\* a response with status 429, 403 or 503
ResponseBusy(status) ==
    /\ fpc = "inflight"
    /\ status \in {429, 403, 503}
    /\ IF fAttempt < maxRetries
       THEN Retry
       ELSE IF status = 429
            THEN Finish(FetchErr("Rate limited (429)", "RATE_LIMITED"))
            ELSE /\ fpc' = "body"
                 /\ UNCHANGED fOutcome
    /\ fStatus' = status
    /\ fBlocked' = IF status \in {403, 503} THEN fBlocked + 1 ELSE fBlocked
    /\ UNCHANGED requests
    /\ UNCHANGED <<fOpts, fAborted, fUrl, fAttempt, fCur, fRedirects, fChain, fChecked,
                   fSent>>
    /\ UNCHANGED notFetch

\* a response with another status, a redirect status included when
\* followRedirects is off or the Location header is missing: break
ResponseFinal(status, hasLocation) ==
    /\ fpc = "inflight"
    /\ status \in {200, 404, 301}
    /\ status = 301 => (~fOpts.followRedirects \/ ~hasLocation)
    /\ fpc' = "body"
    /\ fStatus' = status
    /\ UNCHANGED requests
    /\ UNCHANGED <<fOpts, fAborted, fUrl, fAttempt, fCur, fRedirects, fChain, fChecked,
                   fSent, fOutcome>>
    /\ UNCHANGED fBlocked
    /\ UNCHANGED notFetch

\* mutant: one redirect more than maxRedirects is followed
ResponseRedirect_late(target) ==
    /\ fpc = "inflight"
    /\ fOpts.followRedirects
    /\ IF ~target.valid
       THEN /\ Thrown("other")
            /\ UNCHANGED <<fCur, fRedirects, fChain>>
       ELSE /\ fChain' = Append(fChain, fCur)
            /\ fCur' = target
            /\ fRedirects' = fRedirects + 1
            /\ IF fRedirects + 1 > fOpts.maxRedirects + 1
               THEN Finish(FetchErr("Too many redirects", ""))
               ELSE /\ fpc' = "redirect-ssrf"
                    /\ UNCHANGED fOutcome
    /\ fStatus' = 301
    /\ UNCHANGED requests
    /\ UNCHANGED <<fOpts, fAborted, fUrl, fAttempt, fChecked, fSent>>
    /\ UNCHANGED fBlocked
    /\ UNCHANGED notFetch

\* a redirect status with a Location header that resolves to target
\* (BadUrl: new URL(location, currentUrl) throws)
ResponseRedirect(target) ==
    /\ fpc = "inflight"
    /\ fOpts.followRedirects
    /\ IF ~target.valid
       THEN /\ Thrown("other")
            /\ UNCHANGED <<fCur, fRedirects, fChain>>
       ELSE /\ fChain' = Append(fChain, fCur)
            /\ fCur' = target
            /\ fRedirects' = fRedirects + 1
            /\ IF fRedirects + 1 > fOpts.maxRedirects
               THEN Finish(FetchErr("Too many redirects", ""))
               ELSE /\ fpc' = "redirect-ssrf"
                    /\ UNCHANGED fOutcome
    /\ fStatus' = 301
    /\ UNCHANGED requests
    /\ UNCHANGED <<fOpts, fAborted, fUrl, fAttempt, fChecked, fSent>>
    /\ UNCHANGED fBlocked
    /\ UNCHANGED notFetch

\* mutant: the redirect target is requested without asking the guard
RedirectSsrfCheck_skipped(dns) ==
    /\ fpc = "redirect-ssrf"
    /\ fpc' = "request"
    /\ UNCHANGED <<fOpts, fAborted, fUrl, fAttempt, fCur, fRedirects, fChain, fChecked,
                   fSent, fOutcome, fStatus, requests>>
    /\ UNCHANGED fBlocked
    /\ UNCHANGED notFetch

\* the SSRF check on the redirect target, then `continue`
RedirectSsrfCheck(dns) ==
    /\ fpc = "redirect-ssrf"
    /\ LET redirectSSRF == validateUrlForSSRF(fCur, allowedProtocols, dns) IN
       IF ~redirectSSRF.safe
       THEN /\ Finish(FetchErr("Redirect to blocked URL", ""))
            /\ UNCHANGED fChecked
       ELSE /\ fpc' = "request"
            /\ fChecked' = fChecked \cup {fCur}
            /\ UNCHANGED fOutcome
    /\ UNCHANGED <<fOpts, fAborted, fUrl, fAttempt, fCur, fRedirects, fChain, fSent,
                   fStatus, requests>>
    /\ UNCHANGED fBlocked
    /\ UNCHANGED notFetch

\* the rest of the attempt: Content-Length check, streaming the body, the
\* bot-interstitial probe, the success record
Body(body) ==
    /\ fpc = "body"
    /\ body \in BodyKinds
    /\ body = "bot-page" => fStatus = 200
    /\ fBlocked' = IF body = "bot-page" THEN fBlocked + 1 ELSE fBlocked
    /\ CASE body = "declared-too-large" -> Finish(FetchErr("File too large", ""))
         [] body = "stream-too-large" -> Finish(FetchErr("File too large", ""))
         [] body = "no-body" -> Thrown("other")
         [] body = "read-error" -> Thrown("network")
         [] body = "bot-page" ->
                IF fAttempt < maxRetries
                THEN Retry
                ELSE Finish(FetchOk(fCur, fStatus, fChain))
         [] OTHER -> Finish(FetchOk(fCur, fStatus, fChain))
    /\ UNCHANGED <<fOpts, fAborted, fUrl, fAttempt, fCur, fRedirects, fChain, fChecked,
                   fSent, fStatus, requests>>
    /\ UNCHANGED notFetch

\* the wait before a retry is over: fetchWithRetry(url, referer, attempt + 1)
RetryStart ==
    /\ fpc = "retry-wait"
    /\ fpc' = "ssrf"
    /\ fAttempt' = fAttempt + 1
    /\ UNCHANGED <<fOpts, fAborted, fUrl, fCur, fRedirects, fChain, fChecked, fSent,
                   fOutcome, fStatus, requests>>
    /\ UNCHANGED fBlocked
    /\ UNCHANGED notFetch

\* abort(): the flag is set and a task waiting in the pool is dropped
Abort ==
    /\ ~fAborted
    /\ fAborted' = TRUE
    /\ fpc' = IF fpc = "queued" THEN "dropped" ELSE fpc
    /\ UNCHANGED <<fOpts, fUrl, fAttempt, fCur, fRedirects, fChain, fChecked, fSent,
                   fOutcome, fStatus, requests>>
    /\ UNCHANGED fBlocked
    /\ UNCHANGED notFetch

FetchNext ==
    \/ \E url \in FetchUrls : FetchCall(url)
    \/ PoolAdd
    \/ PoolStart
    \/ \E dns \in FetchDns : SsrfCheck(dns)
    \/ Request
    \/ \E kind \in ThrownKinds : RequestFails(kind)
    \/ \E status \in {429, 403, 503} : ResponseBusy(status)
    \/ \E status \in {200, 404, 301}, hasLocation \in BOOLEAN : ResponseFinal(status, hasLocation)
    \/ \E target \in RedirectTargets \cup {BadUrl} : ResponseRedirect(target)
    \/ \E dns \in FetchDns : RedirectSsrfCheck(dns)
    \/ \E body \in BodyKinds : Body(body)
    \/ RetryStart
    \/ Abort

SpecFetch == FetchInit /\ [][FetchNext]_vars

\* every continuation of the call runs and every request, body read and
\* timer it waits for completes (requests carry a timeout)
SpecFetchLive == FetchInit /\ [][FetchNext]_vars /\ WF_vars(FetchNext)

(***************************************************************************)
(* The size checks of fetchWithRetry: the Content-Length test, then the    *)
(* body streamed chunk by chunk under a running total.                     *)
(***************************************************************************)
\* largest options.maxFileSize, longest chunk and most chunks of a response
MaxFileSizeOpt == 2
MaxChunkLen == 2
MaxChunks == 3

\* a JavaScript number: NaN or a value
Num(n) == [nan |-> FALSE, value |-> n]
NaN == [nan |-> TRUE, value |-> 0]

\* a Content-Length header: absent, or its text as parseInt reads it
NoHeader == [present |-> FALSE, text |-> NaN]
Header(number) == [present |-> TRUE, text |-> number]

\* what a server may declare and send: the declared length need not be the
\* length of what follows
ContentLengths ==
    {NoHeader, Header(NaN)} \cup { Header(Num(n)) : n \in 0..(MaxFileSizeOpt + 2) }
ChunkLists == UNION { [1..n -> 1..MaxChunkLen] : n \in 0..MaxChunks }

RECURSIVE SumOf(_)
SumOf(lengths) == IF lengths = <<>> THEN 0 ELSE Head(lengths) + SumOf(Tail(lengths))

NoBodyOutcome == [success |-> FALSE, error |-> "pending", retryable |-> FALSE, bodyLength |-> 0]
BodyErr(error, retryable) ==
    [success |-> FALSE, error |-> error, retryable |-> retryable, bodyLength |-> 0]
\* body = Buffer.concat(chunks)
BodyOk(chunks) == [success |-> TRUE, error |-> "", retryable |-> FALSE,
                   bodyLength |-> SumOf(chunks)]

\* mutant: one unit more than maxFileSize is let through
TooLarge_slack(size) == ~size.nan /\ size.value > maxFileSize + 1

\* `size > this.options.maxFileSize`; a comparison with NaN is false
TooLarge(size) == ~size.nan /\ size.value > maxFileSize

\* contentLengthHeader ? parseInt(contentLengthHeader, 10) : 0
ContentLengthOf(header) == IF header.present THEN header.text ELSE Num(0)

BodyInit ==
    /\ maxFileSize \in 1..MaxFileSizeOpt
    /\ bDeclared \in ContentLengths
    /\ bChunks \in ChunkLists
    /\ bTotal = 0
    /\ bKept = <<>>
    /\ bReads = 0
    /\ bCancelled = FALSE
    /\ bpc = "headers"
    /\ bOutcome = NoBodyOutcome
    /\ GuardIdle
    /\ FetchIdle
    /\ StorageIdle
    /\ QueueIdle
    /\ EngineIdle
    /\ RewriterIdle
    /\ ParserIdle
    /\ RunIdle
    /\ NormIdle
    /\ RateIdle

notBody == <<guardVars, fetchVars, storageVars, queueVars, engineVars, rewriterVars,
             parserVars, runVars, normVars, rateVars>>

\* the Content-Length check
CheckLength ==
    /\ bpc = "headers"
    /\ IF TooLarge(ContentLengthOf(bDeclared))
       THEN /\ bpc' = "done"
            /\ bOutcome' = BodyErr("File too large", FALSE)
       ELSE /\ bpc' = "reader"
            /\ UNCHANGED bOutcome
    /\ UNCHANGED <<maxFileSize, bDeclared, bChunks, bTotal, bKept, bReads, bCancelled>>
    /\ UNCHANGED notBody

\* response.body?.getReader(): without a body the attempt throws
GetReader(hasBody) ==
    /\ bpc = "reader"
    /\ IF hasBody
       THEN /\ bpc' = "read"
            /\ UNCHANGED bOutcome
       ELSE /\ bChunks = <<>>
            /\ bpc' = "done"
            /\ bOutcome' = BodyErr("thrown", TRUE)
    /\ UNCHANGED <<maxFileSize, bDeclared, bChunks, bTotal, bKept, bReads, bCancelled>>
    /\ UNCHANGED notBody

\* one turn of the read loop: reader.read() returned
Read ==
    /\ bpc = "read"
    /\ bReads' = bReads + 1
    /\ IF bChunks = <<>>
       THEN /\ bpc' = "done"
            /\ bOutcome' = BodyOk(bKept)
            /\ UNCHANGED <<bChunks, bTotal, bKept, bCancelled>>
       ELSE /\ bChunks' = Tail(bChunks)
            /\ bTotal' = bTotal + Head(bChunks)
            /\ IF TooLarge(Num(bTotal + Head(bChunks)))
               THEN /\ bCancelled' = TRUE
                    /\ bpc' = "done"
                    /\ bOutcome' = BodyErr("File too large", FALSE)
                    /\ UNCHANGED bKept
               ELSE /\ bKept' = Append(bKept, Head(bChunks))
                    /\ UNCHANGED <<bpc, bOutcome, bCancelled>>
    /\ UNCHANGED <<maxFileSize, bDeclared>>
    /\ UNCHANGED notBody

\* reader.read() rejects: the catch block of fetchWithRetry
ReadFails ==
    /\ bpc = "read"
    /\ bpc' = "done"
    /\ bOutcome' = BodyErr("thrown", TRUE)
    /\ UNCHANGED <<maxFileSize, bDeclared, bChunks, bTotal, bKept, bReads, bCancelled>>
    /\ UNCHANGED notBody

BodyNext ==
    \/ CheckLength
    \/ \E hasBody \in BOOLEAN : GetReader(hasBody)
    \/ Read
    \/ ReadFails

SpecBody == BodyInit /\ [][BodyNext]_vars

(***************************************************************************)
(* Fetcher.fetch calls for one host under a clock: the rate-limit map, the *)
(* delays of fetch and of the retries, and the pool.                       *)
(***************************************************************************)
\* concurrent fetch calls, last instant of the clock, longest Retry-After and
\* longest jittered delay, in seconds
NumCalls == 2
MaxClock == 4
MaxWait == 2
MaxJitter == 1
\* options.concurrency of the pool
PoolConcurrency == 2

RateCalls == 1..NumCalls

NotCalled == [pc |-> "idle", wake |-> 0, attempt |-> 0]

\* isRateLimited(url): no entry, or an entry that has run out and is deleted
isRateLimited == rateLimitedUntil # 0 /\ now < rateLimitedUntil

\* the task of a call holds its pool slot from its first attempt to its return
InPool == { c \in RateCalls : calls[c].pc \in {"sent", "retry-wait"} }

\* the rate-limit entry in force when a request leaves
Sent == [at |-> now, until |-> rateLimitedUntil]

RateInit ==
    /\ now = 1
    /\ rateLimitedUntil = 0
    /\ calls = [c \in RateCalls |-> NotCalled]
    /\ sentAt = [at |-> 0, until |-> 0]
    /\ GuardIdle
    /\ FetchIdle
    /\ StorageIdle
    /\ QueueIdle
    /\ EngineIdle
    /\ RewriterIdle
    /\ ParserIdle
    /\ RunIdle
    /\ NormIdle
    /\ BodyIdle

notRate == <<guardVars, fetchVars, storageVars, queueVars, engineVars, rewriterVars,
             parserVars, runVars, normVars, bodyVars>>

\* Date.now() advances
Tick ==
    /\ now < MaxClock
    /\ now' = now + 1
    /\ UNCHANGED <<rateLimitedUntil, calls, sentAt>>
    /\ UNCHANGED notRate

\* fetch(url) up to its first await: the rate-limit check, then either the
\* wait for the entry to run out or the jitter delay
RateCheck(c, jitter) ==
    /\ calls[c].pc = "idle"
    /\ IF isRateLimited
       THEN /\ calls' = [calls EXCEPT ![c] = [pc |-> "rate-wait", wake |-> rateLimitedUntil,
                                              attempt |-> 0]]
            /\ UNCHANGED rateLimitedUntil
       ELSE /\ calls' = [calls EXCEPT ![c] = [pc |-> "jitter", wake |-> now + jitter,
                                              attempt |-> 0]]
            /\ rateLimitedUntil' = 0
    /\ UNCHANGED <<now, sentAt>>
    /\ UNCHANGED notRate

\* the rate-limit wait of fetch is over: the jitter delay follows, the map is
\* not read again
RateWake(c, jitter) ==
    /\ calls[c].pc = "rate-wait"
    /\ now >= calls[c].wake
    /\ calls' = [calls EXCEPT ![c] = [@ EXCEPT !.pc = "jitter", !.wake = now + jitter]]
    /\ UNCHANGED <<now, rateLimitedUntil, sentAt>>
    /\ UNCHANGED notRate

\* the jitter delay is over: queue.add(...)
JitterWake(c) ==
    /\ calls[c].pc = "jitter"
    /\ now >= calls[c].wake
    /\ calls' = [calls EXCEPT ![c] = [@ EXCEPT !.pc = "queued"]]
    /\ UNCHANGED <<now, rateLimitedUntil, sentAt>>
    /\ UNCHANGED notRate

\* the pool starts the task: fetchWithRetry(url, referer, 1) sends its request
PoolRun(c) ==
    /\ calls[c].pc = "queued"
    /\ Cardinality(InPool) < PoolConcurrency
    /\ calls' = [calls EXCEPT ![c] = [@ EXCEPT !.pc = "sent", !.attempt = 1]]
    /\ sentAt' = Sent
    /\ UNCHANGED <<now, rateLimitedUntil>>
    /\ UNCHANGED notRate

\* the response is a 429 with Retry-After waitSeconds: setRateLimit, then the
\* wait and the next attempt, or the final error
Answer429(c, waitSeconds) ==
    /\ calls[c].pc = "sent"
    /\ rateLimitedUntil' = now + waitSeconds
    /\ calls' = [calls EXCEPT ![c] =
                    IF @.attempt < maxRetries
                    THEN [@ EXCEPT !.pc = "retry-wait", !.wake = now + waitSeconds]
                    ELSE [@ EXCEPT !.pc = "done"]]
    /\ UNCHANGED <<now, sentAt>>
    /\ UNCHANGED notRate

\* the request throws (timeout, network error): the jittered backoff of the
\* catch block and the next attempt, or the final error
AnswerThrown(c, backoff) ==
    /\ calls[c].pc = "sent"
    /\ calls' = [calls EXCEPT ![c] =
                    IF @.attempt < maxRetries
                    THEN [@ EXCEPT !.pc = "retry-wait", !.wake = now + backoff]
                    ELSE [@ EXCEPT !.pc = "done"]]
    /\ UNCHANGED <<now, rateLimitedUntil, sentAt>>
    /\ UNCHANGED notRate

\* any other response ends the call
AnswerFinal(c) ==
    /\ calls[c].pc = "sent"
    /\ calls' = [calls EXCEPT ![c] = [@ EXCEPT !.pc = "done"]]
    /\ UNCHANGED <<now, rateLimitedUntil, sentAt>>
    /\ UNCHANGED notRate

\* the delay before a retry is over: fetchWithRetry(url, referer, attempt + 1)
\* sends the next request
RetrySend(c) ==
    /\ calls[c].pc = "retry-wait"
    /\ now >= calls[c].wake
    /\ calls' = [calls EXCEPT ![c] = [@ EXCEPT !.pc = "sent", !.attempt = @ + 1]]
    /\ sentAt' = Sent
    /\ UNCHANGED <<now, rateLimitedUntil>>
    /\ UNCHANGED notRate

RateNext ==
    \/ Tick
    \/ \E c \in RateCalls, jitter \in 0..MaxJitter : RateCheck(c, jitter)
    \/ \E c \in RateCalls, jitter \in 0..MaxJitter : RateWake(c, jitter)
    \/ \E c \in RateCalls : JitterWake(c)
    \/ \E c \in RateCalls : PoolRun(c)
    \/ \E c \in RateCalls, waitSeconds \in 1..MaxWait : Answer429(c, waitSeconds)
    \/ \E c \in RateCalls, backoff \in 1..MaxWait : AnswerThrown(c, backoff)
    \/ \E c \in RateCalls : AnswerFinal(c)
    \/ \E c \in RateCalls : RetrySend(c)

SpecRate == RateInit /\ [][RateNext]_vars


(***************************************************************************)
(* C1                                                                      *)
(***************************************************************************)
\* C1: a request of Fetcher.fetch only ever goes to a URL the guard declared
\* safe earlier in the same attempt (the original URL on every attempt, each
\* redirect target), and an unsafe verdict ends the call with a non-retryable
\* error without a further request.
C1_RequestsOnlyAfterSafeVerdict ==
    [][/\ fSent' \subseteq fChecked'
       /\ fSent' # fSent /\ fSent' # {} => (fCur \in fChecked /\ fSent' = fSent \cup {fCur})
       /\ (fpc \in {"ssrf", "redirect-ssrf"} /\ fpc' \notin {fpc, "request"}) =>
             /\ fpc' = "done"
             /\ ~fOutcome'.success /\ ~fOutcome'.retryable
             /\ fSent' \subseteq fSent
       /\ fpc = "done" => (fpc' = "done" /\ fSent' = fSent)]_vars

\* on a retry the call followed a redirect to a target the guard had checked
\* and requested it
C1_Witness ==
    /\ fpc = "inflight" /\ fAttempt = 2 /\ fRedirects = 1 /\ fCur # fUrl
    /\ fCur \in fSent /\ fUrl \in fSent

(***************************************************************************)
(* Paths (Node's posix path module) and the sandbox check.  A path is a    *)
(* sequence of characters.                                                 *)
(***************************************************************************)
RECURSIVE SplitFrom(_, _, _)
\* s.split('/') from position i on, cur being the segment under way
SplitFrom(s, i, cur) ==
    IF i > Len(s) THEN <<cur>>
    ELSE IF s[i] = "/" THEN <<cur>> \o SplitFrom(s, i + 1, <<>>)
    ELSE SplitFrom(s, i + 1, Append(cur, s[i]))

SplitPath(s) == SplitFrom(s, 1, <<>>)

RECURSIVE ResolveSegs(_, _)
\* normalizeString of an absolute path: '' and '.' are dropped, '..' removes
\* the segment before it and is dropped at the root
ResolveSegs(segs, acc) ==
    IF segs = <<>> THEN acc
    ELSE LET h == Head(segs) IN
         IF h = <<>> \/ h = <<".">> THEN ResolveSegs(Tail(segs), acc)
         ELSE IF h = <<".", ".">>
              THEN ResolveSegs(Tail(segs),
                               IF acc = <<>> THEN acc ELSE SubSeq(acc, 1, Len(acc) - 1))
              ELSE ResolveSegs(Tail(segs), Append(acc, h))

RECURSIVE JoinSegs(_)
\* segments joined with '/'
JoinSegs(segs) ==
    IF segs = <<>> THEN <<>>
    ELSE IF Len(segs) = 1 THEN segs[1]
    ELSE segs[1] \o <<"/">> \o JoinSegs(Tail(segs))

\* path.normalize of an absolute path; a trailing separator is kept
normalizePath(s) ==
    LET body == JoinSegs(ResolveSegs(SplitPath(s), <<>>)) IN
    IF body = <<>> THEN <<"/">>
    ELSE <<"/">> \o body \o (IF s[Len(s)] = "/" THEN <<"/">> ELSE <<>>)

\* path.join(base, rel): empty arguments are skipped
pathJoin(base, rel) ==
    IF rel = <<>> THEN normalizePath(base) ELSE normalizePath(base \o <<"/">> \o rel)

RECURSIVE StripTrailingSlashes(_)
StripTrailingSlashes(s) ==
    IF s # <<>> /\ s[Len(s)] = "/" THEN StripTrailingSlashes(SubSeq(s, 1, Len(s) - 1)) ELSE s

\* the largest index of a '/' in s, 0 if there is none
LastSlash(s) ==
    LET idx == { i \in 1..Len(s) : s[i] = "/" } IN
    IF idx = {} THEN 0 ELSE CHOOSE i \in idx : \A k \in idx : k <= i

\* path.dirname of an absolute path
dirname(s) ==
    LET t == StripTrailingSlashes(s)
        e == LastSlash(t)
    IN IF e <= 1 THEN <<"/">> ELSE SubSeq(t, 1, e - 1)

\* s.replace(/\\/g, '/')
BackslashesToSlashes(s) == [i \in 1..Len(s) |-> IF s[i] = "\\" THEN "/" ELSE s[i]]

startsWith(s, prefix) ==
    Len(prefix) <= Len(s) /\ SubSeq(s, 1, Len(prefix)) = prefix

\* mutant: any target is taken to be inside the base
isPathWithinBase_open(basePath, targetPath) == TRUE

isPathWithinBase(basePath, targetPath) ==
    LET normalizedBase == StripTrailingSlashes(BackslashesToSlashes(basePath))
        normalizedTarget == BackslashesToSlashes(targetPath)
    IN startsWith(normalizedTarget, normalizedBase \o <<"/">>)
           \/ normalizedTarget = normalizedBase

\* the names on the way from the root to the file or directory p denotes
RealSegs(p) == SelectSeq(SplitPath(p), LAMBDA seg : seg # <<>>)

IsPrefixSeq(a, b) == Len(a) <= Len(b) /\ SubSeq(b, 1, Len(a)) = a

Prefixes(segs) == { SubSeq(segs, 1, k) : k \in 0..Len(segs) }

(***************************************************************************)
(* FileStorage                                                             *)
(***************************************************************************)
\* path.resolve(config.jobsDir, jobId): jobs directory /r, job id j
baseDir == <<"/", "r", "/", "j">>

PathChars == {"/", "\\", ".", "j"}
RelPaths == SeqsUpTo(PathChars, MaxPathLen)

\* local paths as the rewriter hands them out: host directory, file
LocalPaths == { <<"a", "/", "i">>, <<"a", "/", "s">> }

Writers == 1..NumWriters
Sizes == 0..MaxBytes

RECURSIVE SumSizes(_, _)
SumSizes(files, keys) ==
    IF keys = {} THEN 0
    ELSE LET k == CHOOSE x \in keys : TRUE IN files[k] + SumSizes(files, keys \ {k})

\* the bytes of all files of the job directory
BytesOnDisk == SumSizes(sFiles, DOMAIN sFiles)

NoStats == [filesWritten |-> 0, totalBytes |-> 0, directories |-> 0]

\* after the constructor and init(): the job directory exists and is empty
StorageStart(inputs) ==
    /\ sInputs = inputs
    /\ sFiles = <<>>
    /\ sDirs = Prefixes(RealSegs(baseDir))
    /\ sCreatedDirs = {baseDir}
    /\ sStats = NoStats
    /\ wpc = [w \in Writers |-> "idle"]
    /\ wRel = [w \in Writers |-> <<>>]
    /\ wSize = [w \in Writers |-> 0]
    /\ wRes = [w \in Writers |-> "none"]
    /\ rdRes = "none"
    /\ GuardIdle
    /\ FetchIdle
    /\ QueueIdle
    /\ EngineIdle
    /\ RewriterIdle
    /\ ParserIdle
    /\ RunIdle
    /\ NormIdle
    /\ BodyIdle
    /\ RateIdle

\* one caller, any relative path
PathInit ==
    /\ \E rel \in RelPaths : StorageStart({rel})
    /\ sCfgMax = MaxTotal
    /\ sOptMax = MaxTotal

\* the engine's writers, the rewriter's local paths
StorageInit ==
    /\ StorageStart(LocalPaths)
    /\ sCfgMax \in 1..MaxTotal
    /\ sOptMax \in 1..MaxTotal

\* writeFile up to its first await: the sandbox check, the size check, then
\* fs.mkdir or fs.writeFile is called
WriteBegin(w, rel, size) ==
    /\ wpc[w] = "idle"
    /\ sStats.filesWritten < MaxWrites
    /\ LET fullPath == pathJoin(baseDir, rel) IN
       IF ~isPathWithinBase(baseDir, fullPath)
       THEN /\ wRes' = [wRes EXCEPT ![w] = "traversal"]
            /\ UNCHANGED <<wpc, wRel, wSize>>
       ELSE IF sStats.totalBytes + size > sCfgMax
       THEN /\ wRes' = [wRes EXCEPT ![w] = "size"]
            /\ UNCHANGED <<wpc, wRel, wSize>>
       ELSE /\ wRes' = [wRes EXCEPT ![w] = "none"]
            /\ wRel' = [wRel EXCEPT ![w] = rel]
            /\ wSize' = [wSize EXCEPT ![w] = size]
            /\ wpc' = [wpc EXCEPT ![w] =
                    IF dirname(fullPath) \in sCreatedDirs THEN "write" ELSE "mkdir"]
    /\ UNCHANGED <<sInputs, sCfgMax, sOptMax, sFiles, sDirs, sCreatedDirs, sStats, rdRes>>
    /\ UNCHANGED notStorage

\* fs.mkdir(dir, {recursive: true}) settles; then createdDirs.add(dir) and
\* directories++, and fs.writeFile is called
WriteMkdir(w) ==
    /\ wpc[w] = "mkdir"
    /\ LET dir == dirname(pathJoin(baseDir, wRel[w]))
           segs == RealSegs(dir)
       IN IF \E pre \in Prefixes(segs) : pre \in DOMAIN sFiles
          THEN /\ wRes' = [wRes EXCEPT ![w] = "io"]
               /\ wpc' = [wpc EXCEPT ![w] = "idle"]
               /\ wRel' = [wRel EXCEPT ![w] = <<>>]
               /\ wSize' = [wSize EXCEPT ![w] = 0]
               /\ UNCHANGED <<sDirs, sCreatedDirs, sStats>>
          ELSE /\ sDirs' = sDirs \cup Prefixes(segs)
               /\ sCreatedDirs' = sCreatedDirs \cup {dir}
               /\ sStats' = [sStats EXCEPT !.directories = @ + 1]
               /\ wpc' = [wpc EXCEPT ![w] = "write"]
               /\ UNCHANGED <<wRes, wRel, wSize>>
    /\ UNCHANGED <<sInputs, sCfgMax, sOptMax, sFiles, rdRes>>
    /\ UNCHANGED notStorage

\* fs.writeFile(fullPath, content) settles; then filesWritten++ and
\* totalBytes += contentSize
WriteDone(w) ==
    /\ wpc[w] = "write"
    /\ wpc' = [wpc EXCEPT ![w] = "idle"]
    /\ LET fullPath == pathJoin(baseDir, wRel[w])
           segs == RealSegs(fullPath)
       IN IF \/ fullPath[Len(fullPath)] = "/"
             \/ segs \in sDirs
             \/ SubSeq(segs, 1, Len(segs) - 1) \notin sDirs
          THEN /\ wRes' = [wRes EXCEPT ![w] = "io"]
               /\ UNCHANGED <<sFiles, sStats>>
          ELSE /\ sFiles' = [k \in DOMAIN sFiles \cup {segs} |->
                                IF k = segs THEN wSize[w] ELSE sFiles[k]]
               /\ sStats' = [sStats EXCEPT !.filesWritten = @ + 1,
                                           !.totalBytes = @ + wSize[w]]
               /\ wRes' = [wRes EXCEPT ![w] = "ok"]
    /\ wRel' = [wRel EXCEPT ![w] = <<>>]
    /\ wSize' = [wSize EXCEPT ![w] = 0]
    /\ UNCHANGED <<sInputs, sCfgMax, sOptMax, sDirs, sCreatedDirs, rdRes>>
    /\ UNCHANGED notStorage

\* readFile(relativePath)
ReadFile(rel) ==
    /\ LET fullPath == pathJoin(baseDir, rel) IN
       rdRes' = IF ~isPathWithinBase(baseDir, fullPath) THEN "traversal"
                ELSE IF RealSegs(fullPath) \in DOMAIN sFiles THEN "ok"
                ELSE "io"
    /\ rdRes' # rdRes
    /\ UNCHANGED <<sInputs, sCfgMax, sOptMax, sFiles, sDirs, sCreatedDirs, sStats,
                   wpc, wRel, wSize, wRes>>
    /\ UNCHANGED notStorage

\* a single caller
PathNext ==
    \/ \E rel \in sInputs, size \in Sizes : WriteBegin(1, rel, size)
    \/ WriteMkdir(1)
    \/ WriteDone(1)
    \/ \E rel \in sInputs : ReadFile(rel)

StorageNext ==
    \/ \E w \in Writers, rel \in sInputs, size \in Sizes : WriteBegin(w, rel, size)
    \/ \E w \in Writers : WriteMkdir(w)
    \/ \E w \in Writers : WriteDone(w)
    \/ \E rel \in sInputs : ReadFile(rel)

SpecPath == PathInit /\ [][PathNext]_vars
SpecStorage == StorageInit /\ [][StorageNext]_vars

(***************************************************************************)
(* C3                                                                      *)
(***************************************************************************)
\* the path really lies in the job directory: it is the directory or below it
InSandbox(segs) == IsPrefixSeq(RealSegs(baseDir), segs)

\* C3: writeFile and readFile reject every relative path whose joined,
\* normalised absolute path is neither the job directory nor below it, and a
\* write rejected for traversal or for the size ceiling leaves the disk and
\* the statistics as they were.
C3_EscapingPathsRejected ==
    /\ \A w \in Writers :
          wpc[w] # "idle" => InSandbox(RealSegs(pathJoin(baseDir, wRel[w])))
    /\ \A segs \in DOMAIN sFiles : InSandbox(segs)
    /\ rdRes \in {"ok", "io"} =>
          \A rel \in sInputs : InSandbox(RealSegs(pathJoin(baseDir, rel)))

(***************************************************************************)
(* C4                                                                      *)
(***************************************************************************)
\* C4: at every point of a run the bytes of the files in the job's storage
\* add up to at most the maxTotalSize of the job's options.
C4_BytesWithinJobCeiling == BytesOnDisk <= sOptMax

(***************************************************************************)
(* URL utilities (utils/url.ts).  A URL string is written as the record of *)
(* its parts; a host is its list of labels, a path and a pattern are lists *)
(* of tokens ("/", ".", "*", names), a query is its list of parameters.    *)
(***************************************************************************)
\* String.prototype.toLowerCase on the tokens URLs are written with
toLowerCase(s) ==
    CASE s = "HTTP" -> "http"
      [] s = "HTTPS" -> "https"
      [] s = "A" -> "a"
      [] s = "B" -> "b"
      [] s = "P" -> "p"
      [] s = "TEST" -> "test"
      [] s = "PNG" -> "png"
      [] s = "CSS" -> "css"
      [] OTHER -> s

LowerAll(seq) == [i \in 1..Len(seq) |-> toLowerCase(seq[i])]

\* the port the URL parser drops for a scheme
DefaultPort(protocol) ==
    CASE protocol = "http" -> "80"
      [] protocol = "https" -> "443"
      [] protocol = "ftp" -> "21"
      [] OTHER -> "none"

\* new URL(urlString) on a string that parses: scheme and host come out in
\* lower case, the scheme's default port is dropped, an empty path is "/"
parseUrl(urlString) ==
    LET protocol == toLowerCase(urlString.protocol) IN
    [urlString EXCEPT !.protocol = protocol,
                      !.hostname = [@ EXCEPT !.labels = LowerAll(@)],
                      !.port = IF @ = DefaultPort(protocol) THEN "" ELSE @,
                      !.pathname = IF @ = <<>> THEN <<"/">> ELSE @]

\* what normalizeUrl returns for a string `new URL` throws on
Null == BadUrl

\* position of a parameter in the order Array.prototype.sort puts them in
ParamRank(p) ==
    CASE p = "a=1" -> 1
      [] p = "b=2" -> 2
      [] p = "s=%20" -> 3
      [] p = "s=+" -> 3
      [] OTHER -> 4

\* URLSearchParams.toString of one parameter
FormEncode(p) == IF p = "s=%20" THEN "s=+" ELSE p

RECURSIVE InsertParam(_, _)
InsertParam(p, sorted) ==
    IF sorted = <<>> THEN <<p>>
    ELSE IF ParamRank(p) < ParamRank(Head(sorted)) THEN <<p>> \o sorted
    ELSE <<Head(sorted)>> \o InsertParam(p, Tail(sorted))

\* [...params.entries()].sort(): stable, ascending
RECURSIVE SortParams(_)
SortParams(params) ==
    IF params = <<>> THEN <<>>
    ELSE InsertParam(params[Len(params)], SortParams(SubSeq(params, 1, Len(params) - 1)))

\* normalizeUrl(urlString) without a baseUrl; the result stands for url.href
normalizeUrl(urlString) ==
    IF ~urlString.valid THEN Null
    ELSE
        LET url == parseUrl(urlString)
            protocol == toLowerCase(url.protocol)
            hostname == [url.hostname EXCEPT !.labels = LowerAll(@)]
            port == IF \/ (protocol = "http" /\ url.port = "80")
                       \/ (protocol = "https" /\ url.port = "443")
                    THEN "" ELSE url.port
            pathname == IF url.pathname # <<"/">> /\ url.pathname[Len(url.pathname)] = "/"
                        THEN SubSeq(url.pathname, 1, Len(url.pathname) - 1)
                        ELSE url.pathname
            search == IF url.search # <<>>
                      THEN [i \in 1..Len(url.search) |-> FormEncode(SortParams(url.search)[i])]
                      ELSE url.search
        IN  Url(protocol, hostname, port, pathname, search, "")

(***************************************************************************)
(* normalizeUrl called on a URL string, then on what it returned           *)
(***************************************************************************)
\* calls in a row
MaxNormCalls == 3

\* URL strings with upper-case scheme and host, default and other ports,
\* one and several trailing slashes, unsorted and encoded queries, a fragment
NormUrls ==
    { Url(p, Name(h), port, path, search, hash) :
        p \in {"http", "HTTP", "https"},
        h \in {<<"a", "test">>, <<"A", "TEST">>},
        port \in {"", "80", "443", "8080"},
        path \in {<<"/">>, <<"/", "p">>, <<"/", "p", "/">>, <<"/", "p", "/", "/">>},
        search \in {<<>>, <<"b=2", "a=1">>, <<"s=%20">>},
        hash \in {"", "f"} } \cup {BadUrl}

NormInit ==
    /\ nUrl \in NormUrls
    /\ nResults = <<>>
    /\ GuardIdle
    /\ FetchIdle
    /\ StorageIdle
    /\ QueueIdle
    /\ EngineIdle
    /\ RewriterIdle
    /\ ParserIdle
    /\ RunIdle
    /\ BodyIdle
    /\ RateIdle

\* normalizeUrl(nUrl), then normalizeUrl of the last result
Normalize ==
    /\ Len(nResults) < MaxNormCalls
    /\ nResults' = Append(nResults,
                          normalizeUrl(IF nResults = <<>> THEN nUrl
                                       ELSE nResults[Len(nResults)]))
    /\ UNCHANGED nUrl
    /\ UNCHANGED <<guardVars, fetchVars, storageVars, queueVars, engineVars,
                   rewriterVars, parserVars, runVars, bodyVars, rateVars>>

NormNext == Normalize

SpecNormalize == NormInit /\ [][NormNext]_vars

\* the labels of url.hostname ("a.b.c".split('.'))
HostParts(hostname) ==
    IF hostname.kind = "ip4"
    THEN [i \in 1..4 |-> ToString(hostname.ip[i])]
    ELSE hostname.labels

\* what getDomain and getBaseDomain return for a string that does not parse
NoDomain == <<>>

getDomain(urlString) ==
    IF ~urlString.valid THEN NoDomain
    ELSE LowerAll(HostParts(parseUrl(urlString).hostname))

commonSecondLevelTLDs == {"co", "com", "org", "net", "gov", "edu", "ac"}

\* parts.slice(-n)
LastParts(parts, n) == SubSeq(parts, Len(parts) - n + 1, Len(parts))

getBaseDomain(urlString) ==
    LET domain == getDomain(urlString)
        parts == domain
    IN  IF domain = NoDomain THEN NoDomain
        ELSE IF Len(parts) <= 2 THEN domain
        ELSE IF parts[Len(parts) - 1] \in commonSecondLevelTLDs THEN LastParts(parts, 3)
        ELSE LastParts(parts, 2)

\* host.endsWith('.' + domain)
endsWithDomain(host, domain) ==
    /\ Len(domain) > 0
    /\ Len(host) > Len(domain)
    /\ LastParts(host, Len(domain)) = domain

isInScope(url, seedUrl, scope) ==
    LET urlDomain == getDomain(url)
        seedDomain == getDomain(seedUrl)
    IN  IF urlDomain = NoDomain \/ seedDomain = NoDomain THEN FALSE
        ELSE CASE scope = "same-host" -> urlDomain = seedDomain
               [] scope = "same-domain" -> getBaseDomain(url) = getBaseDomain(seedUrl)
               [] scope = "subdomains" ->
                    LET baseDomain == getBaseDomain(seedUrl) IN
                    urlDomain = baseDomain \/ endsWithDomain(urlDomain, baseDomain)
               [] OTHER -> FALSE

RECURSIVE Interleave(_, _)
Interleave(seq, sep) ==
    IF Len(seq) <= 1 THEN seq
    ELSE <<Head(seq), sep>> \o Interleave(Tail(seq), sep)

\* url.href, token by token
href(url) ==
    <<url.protocol, ":", "/", "/">> \o Interleave(HostParts(url.hostname), ".")
        \o (IF url.port # "" THEN <<":", url.port>> ELSE <<>>)
        \o url.pathname
        \o (IF url.search # <<>> THEN <<"?">> \o Interleave(url.search, "&") ELSE <<>>)
        \o (IF url.hash # "" THEN <<"#", url.hash>> ELSE <<>>)

\* new RegExp('^' + pattern with * as .* and ? as . + '$', 'i').test(s)
RECURSIVE GlobMatch(_, _)
GlobMatch(s, pattern) ==
    IF pattern = <<>> THEN s = <<>>
    ELSE IF Head(pattern) = "*"
         THEN GlobMatch(s, Tail(pattern)) \/ (s # <<>> /\ GlobMatch(Tail(s), pattern))
    ELSE /\ s # <<>>
         /\ Head(pattern) = "?" \/ toLowerCase(Head(pattern)) = toLowerCase(Head(s))
         /\ GlobMatch(Tail(s), Tail(pattern))

matchesPattern(url, pattern) == GlobMatch(href(url), pattern)

\* seq.lastIndexOf(c), counting from 1; 0 when c does not occur
LastIndexOf(seq, c) ==
    LET I == { i \in 1..Len(seq) : seq[i] = c } IN
    IF I = {} THEN 0 ELSE CHOOSE i \in I : \A j \in I : j <= i

\* the extension is the list of tokens after the last dot of the path
getExtensionFromUrl(urlString) ==
    IF ~urlString.valid THEN <<>>
    ELSE
        LET path == parseUrl(urlString).pathname
            lastDot == LastIndexOf(path, ".")
            lastSlash == LastIndexOf(path, "/")
        IN  IF lastDot > lastSlash /\ lastDot # 0
            THEN LowerAll(SubSeq(path, lastDot + 1, Len(path)))
            ELSE <<>>

Categories == {"html", "css", "js", "images", "fonts", "media", "documents", "other"}

\* an extension the table knows is written as one token
getMimeCategory(ext) ==
    LET extension == IF Len(ext) = 1 THEN toLowerCase(ext[1]) ELSE "" IN
    CASE extension \in {"html", "htm", "xhtml"} -> "html"
      [] extension \in {"css", "scss", "sass", "less"} -> "css"
      [] extension \in {"js", "mjs", "jsx", "ts", "tsx"} -> "js"
      [] extension \in {"jpg", "jpeg", "png", "gif", "webp", "svg", "ico", "bmp", "avif"} -> "images"
      [] extension \in {"woff", "woff2", "ttf", "otf", "eot"} -> "fonts"
      [] extension \in {"mp4", "webm", "ogg", "mp3", "wav", "flac"} -> "media"
      [] extension \in {"pdf", "doc", "docx", "xls", "xlsx", "ppt", "pptx"} -> "documents"
      [] OTHER -> "other"

(***************************************************************************)
(* UrlQueue (crawler/queue.ts).  `this` is the record of the fields of the *)
(* queue; an operation returns what it returns and the fields it leaves.   *)
(***************************************************************************)
\* item.error of an entry that has none
NoError == ""

QueuedUrl(url, normalized, depth, parentUrl) ==
    [url |-> url, normalizedUrl |-> normalized, depth |-> depth, parentUrl |-> parentUrl,
     status |-> "pending", retries |-> 0, error |-> NoError]

\* new UrlQueue(seedUrl, options): the queue and the pending list
UrlQueue(seedUrl, options) ==
    LET normalized == normalizeUrl(seedUrl) IN
    IF normalized # Null
    THEN [queue |-> (normalized :> QueuedUrl(seedUrl, normalized, 0, Null)),
          pendingUrls |-> <<normalized>>]
    ELSE [queue |-> <<>>, pendingUrls |-> <<>>]

\* a call that returns false
Rejected(this) ==
    [ret |-> FALSE, queue |-> this.queue, pendingUrls |-> this.pendingUrls]

\* this.queue.set(normalized, item); this.pendingUrls.push(normalized); return true
Enqueued(this, url, normalized, parentUrl, depth) ==
    [ret |-> TRUE,
     queue |-> (normalized :> QueuedUrl(url, normalized, depth, parentUrl)) @@ this.queue,
     pendingUrls |-> Append(this.pendingUrls, normalized)]

isKnown_never(this, normalized) == FALSE

\* this.queue.has(normalized)
isKnown(this, normalized) == normalized \in DOMAIN this.queue

tooDeep_never(this, depth, slack) == FALSE

\* !unlimitedMode && depth > maxDepth (+ 5 for assets)
tooDeep(this, depth, slack) ==
    ~this.options.unlimitedMode /\ depth > this.options.maxDepth + slack

atMaxPages_never(this) == FALSE

\* !unlimitedMode && this.queue.size >= maxPages
atMaxPages(this) ==
    ~this.options.unlimitedMode /\ Cardinality(DOMAIN this.queue) >= this.options.maxPages

\* fileTypes && fileTypes[category] === false
fileTypeDisabled(this, normalized) ==
    /\ this.options.fileTypes.given
    /\ ~this.options.fileTypes.map[getMimeCategory(getExtensionFromUrl(normalized))]

\* the scope, customDomains, includePaths and excludePaths checks of add
passesScope(this, normalized) ==
    LET scope == IF this.options.scope = "custom" THEN "same-domain" ELSE this.options.scope
        urlHost == HostParts(normalized.hostname)
    IN  /\ isInScope(normalized, this.seedUrl, scope)
        /\ (this.options.scope = "custom" /\ this.options.customDomains.given) =>
              \E d \in this.options.customDomains.list :
                  urlHost = d \/ endsWithDomain(urlHost, d)
        /\ this.options.includePaths # {} =>
              \E pattern \in this.options.includePaths : matchesPattern(normalized, pattern)
        /\ this.options.excludePaths # {} =>
              ~\E pattern \in this.options.excludePaths : matchesPattern(normalized, pattern)

add(this, url, parentUrl, depth) ==
    LET normalized == normalizeUrl(url) IN
    IF normalized = Null THEN Rejected(this)
    ELSE IF isKnown(this, normalized) THEN Rejected(this)
    ELSE IF tooDeep(this, depth, 0) THEN Rejected(this)
    ELSE IF atMaxPages(this) THEN Rejected(this)
    ELSE IF ~passesScope(this, normalized) THEN Rejected(this)
    ELSE IF fileTypeDisabled(this, normalized) THEN Rejected(this)
    ELSE Enqueued(this, url, normalized, parentUrl, depth)

addAsset_scoped(this, url, parentUrl, depth) ==
    LET normalized == normalizeUrl(url) IN
    IF normalized = Null THEN Rejected(this)
    ELSE IF isKnown(this, normalized) THEN Rejected(this)
    ELSE IF tooDeep(this, depth, 5) THEN Rejected(this)
    ELSE IF atMaxPages(this) THEN Rejected(this)
    ELSE IF ~passesScope(this, normalized) THEN Rejected(this)
    ELSE IF fileTypeDisabled(this, normalized) THEN Rejected(this)
    ELSE Enqueued(this, url, normalized, parentUrl, depth)

addAsset(this, url, parentUrl, depth) ==
    LET normalized == normalizeUrl(url) IN
    IF normalized = Null THEN Rejected(this)
    ELSE IF isKnown(this, normalized) THEN Rejected(this)
    ELSE IF tooDeep(this, depth, 5) THEN Rejected(this)
    ELSE IF atMaxPages(this) THEN Rejected(this)
    ELSE IF fileTypeDisabled(this, normalized) THEN Rejected(this)
    ELSE Enqueued(this, url, normalized, parentUrl, depth)

\* next(): found is FALSE when it returns null
RECURSIVE next(_)
next(this) ==
    IF this.pendingUrls = <<>>
    THEN [found |-> FALSE, key |-> Null, queue |-> this.queue, pendingUrls |-> <<>>]
    ELSE
        LET normalized == Head(this.pendingUrls)
            rest == Tail(this.pendingUrls)
        IN  IF normalized \notin DOMAIN this.queue \/ this.queue[normalized].status # "pending"
            THEN next([this EXCEPT !.pendingUrls = rest])
            ELSE [found |-> TRUE, key |-> normalized,
                  queue |-> [this.queue EXCEPT ![normalized].status = "in-progress"],
                  pendingUrls |-> rest]

\* complete / fail / skip: the queue they leave
SetStatus(this, normalizedUrl, status, error) ==
    IF normalizedUrl \in DOMAIN this.queue
    THEN [this.queue EXCEPT ![normalizedUrl].status = status,
                            ![normalizedUrl].error = error]
    ELSE this.queue

\* mutant: a completed entry is pending again
complete_reopened(this, normalizedUrl) ==
    IF normalizedUrl \in DOMAIN this.queue
    THEN SetStatus(this, normalizedUrl, "pending", this.queue[normalizedUrl].error)
    ELSE this.queue

complete(this, normalizedUrl) ==
    IF normalizedUrl \in DOMAIN this.queue
    THEN SetStatus(this, normalizedUrl, "complete", this.queue[normalizedUrl].error)
    ELSE this.queue

fail_unmarked(this, normalizedUrl, error) == this.queue

fail(this, normalizedUrl, error) == SetStatus(this, normalizedUrl, "failed", error)

skip(this, normalizedUrl, reason) == SetStatus(this, normalizedUrl, "skipped", reason)

\* the maxRetries argument is written limit
retry(this, normalizedUrl, limit) ==
    IF normalizedUrl \notin DOMAIN this.queue \/ this.queue[normalizedUrl].retries >= limit
    THEN Rejected(this)
    ELSE [ret |-> TRUE,
          queue |-> [this.queue EXCEPT ![normalizedUrl].retries = @ + 1,
                                       ![normalizedUrl].status = "pending"],
          pendingUrls |-> Append(this.pendingUrls, normalizedUrl)]

hasInProgress(this) ==
    \E k \in DOMAIN this.queue : this.queue[k].status = "in-progress"

hasPending(this) == this.pendingUrls # <<>> \/ hasInProgress(this)

(***************************************************************************)
(* The URLs, patterns and options the frontier is exercised with           *)
(***************************************************************************)
H_a == Name(<<"a", "test">>)
H_www == Name(<<"www", "a", "test">>)
H_b == Name(<<"b", "test">>)

\* http://a.test/
U_seed == Url("http", H_a, "", <<"/">>, <<>>, "")
\* http://a.test/p
U_p == Url("http", H_a, "", <<"/", "p">>, <<>>, "")
\* HTTP://A.TEST:80/p/#f, another spelling of U_p
U_pAlias == Url("HTTP", Name(<<"A", "TEST">>), "80", <<"/", "p", "/">>, <<>>, "f")
\* http://www.a.test/p
U_sub == Url("http", H_www, "", <<"/", "p">>, <<>>, "")
\* http://b.test/
U_other == Url("http", H_b, "", <<"/">>, <<>>, "")
\* http://b.test/i.png
U_img == Url("http", H_b, "", <<"/", "i", ".", "png">>, <<>>, "")
\* http://a.test/s.css
U_css == Url("http", H_a, "", <<"/", "s", ".", "css">>, <<>>, "")

QueueUrls == {U_p, U_pAlias, U_sub, U_img, BadUrl}

QueueKeys == { normalizeUrl(u) : u \in QueueUrls \cup {U_seed} } \ {Null}

\* the glob */p*
Pat_p == <<"*", "/", "p", "*">>

PatternLists == { {}, {Pat_p} }

Scopes == {"same-domain", "same-host", "subdomains", "custom"}

NotGiven == [given |-> FALSE, list |-> {}]
DomainList(list) == [given |-> TRUE, list |-> list]
CustomDomainLists == { NotGiven, DomainList({<<"b", "test">>}) }

AllFileTypes == [given |-> FALSE, map |-> [c \in Categories |-> TRUE]]
NoImages == [given |-> TRUE, map |-> [c \in Categories |-> c # "images"]]

\* crawlOptionsSchema defaults, with small limits (maxDepth >= 1, maxPages >= 1)
DefaultOptions ==
    [scope |-> "same-domain", customDomains |-> NotGiven, includePaths |-> {},
     excludePaths |-> {}, unlimitedMode |-> FALSE, maxDepth |-> 1,
     maxPages |-> MaxPagesOpt, fileTypes |-> AllFileTypes, concurrency |-> 1]

\* the options a queue is built with: every size limit and every filter once
QueueOptions ==
    { [DefaultOptions EXCEPT !.maxPages = n] : n \in 1..MaxPagesOpt }
      \cup { [DefaultOptions EXCEPT !.unlimitedMode = TRUE] }
      \cup { [DefaultOptions EXCEPT !.scope = s] : s \in Scopes }
      \cup { [DefaultOptions EXCEPT !.scope = "custom", !.customDomains = c] :
                c \in CustomDomainLists }
      \cup { [DefaultOptions EXCEPT !.includePaths = {Pat_p}],
             [DefaultOptions EXCEPT !.excludePaths = {Pat_p}],
             [DefaultOptions EXCEPT !.fileTypes = NoImages] }

\* the depths callers pass to add: the limit and one beyond
PageDepths(options) == {options.maxDepth, options.maxDepth + 1}

\* the depths callers pass to addAsset: the limit and one beyond
AssetDepths(options) == {options.maxDepth + 5, options.maxDepth + 6}

This ==
    [queue |-> queue, pendingUrls |-> pendingUrls, options |-> qOptions, seedUrl |-> qSeedUrl]

NoCall == [op |-> "none", url |-> Null, depth |-> 0, ret |-> FALSE]

QueueStart(seedUrl, options) ==
    /\ qOptions = options
    /\ qSeedUrl = seedUrl
    /\ queue = UrlQueue(seedUrl, options).queue
    /\ pendingUrls = UrlQueue(seedUrl, options).pendingUrls
    /\ qVia = [k \in DOMAIN UrlQueue(seedUrl, options).queue |-> "seed"]
    /\ qLast = NoCall
    /\ qOps = 0

QueueInit ==
    /\ \E options \in QueueOptions : QueueStart(U_seed, options)
    /\ GuardIdle
    /\ FetchIdle
    /\ StorageIdle
    /\ EngineIdle
    /\ RewriterIdle
    /\ ParserIdle
    /\ RunIdle
    /\ NormIdle
    /\ BodyIdle
    /\ RateIdle

\* the fields after a call, and the histories
Called(op, url, depth, r) ==
    /\ queue' = r.queue
    /\ pendingUrls' = r.pendingUrls
    /\ qVia' = IF op \in {"add", "addAsset"} /\ r.ret
               THEN (normalizeUrl(url) :> op) @@ qVia ELSE qVia
    /\ qLast' = [op |-> op, url |-> url, depth |-> depth, ret |-> r.ret]
    /\ qOps' = qOps + 1
    /\ UNCHANGED <<qOptions, qSeedUrl>>
    /\ UNCHANGED notQueue

Add(url, depth) ==
    /\ qOps < MaxQueueOps
    /\ Called("add", url, depth, add(This, url, qSeedUrl, depth))

AddAsset(url, depth) ==
    /\ qOps < MaxQueueOps
    /\ Called("addAsset", url, depth, addAsset(This, url, qSeedUrl, depth))

TakeNext ==
    /\ qOps < MaxQueueOps
    /\ LET n == next(This) IN
       Called("next", n.key, 0,
              [ret |-> n.found, queue |-> n.queue, pendingUrls |-> n.pendingUrls])

Complete(k) ==
    /\ qOps < MaxQueueOps
    /\ Called("complete", k, 0,
              [ret |-> TRUE, queue |-> complete(This, k), pendingUrls |-> pendingUrls])

Fail(k) ==
    /\ qOps < MaxQueueOps
    /\ Called("fail", k, 0,
              [ret |-> TRUE, queue |-> fail(This, k, "error"), pendingUrls |-> pendingUrls])

Skip(k) ==
    /\ qOps < MaxQueueOps
    /\ Called("skip", k, 0,
              [ret |-> TRUE, queue |-> skip(This, k, "reason"), pendingUrls |-> pendingUrls])

RetryEntry(k, limit) ==
    /\ qOps < MaxQueueOps
    /\ Called("retry", k, 0, retry(This, k, limit))

QueueNext ==
    \/ \E url \in QueueUrls, depth \in PageDepths(qOptions) : Add(url, depth)
    \/ \E url \in QueueUrls, depth \in AssetDepths(qOptions) : AddAsset(url, depth)
    \/ TakeNext
    \/ \E k \in QueueKeys : Complete(k)
    \/ \E k \in QueueKeys : Fail(k)
    \/ \E k \in QueueKeys : Skip(k)
    \/ \E k \in QueueKeys, limit \in 0..MaxRetryArg : RetryEntry(k, limit)

SpecQueue == QueueInit /\ [][QueueNext]_vars

(***************************************************************************)
(* LinkRewriter (rewriter/index.ts).  A local path is the list of tokens   *)
(* it is written with; `this` is the record of the three maps.  Names stay *)
(* far below the 200 characters at which they are shortened.               *)
(***************************************************************************)
RECURSIVE ReplaceDotDot(_)
\* filename.replace(/\.\./g, '_')
ReplaceDotDot(s) ==
    IF Len(s) < 2 THEN s
    ELSE IF s[1] = "." /\ s[2] = "." THEN <<"_">> \o ReplaceDotDot(SubSeq(s, 3, Len(s)))
    ELSE <<s[1]>> \o ReplaceDotDot(Tail(s))

RECURSIVE TrimDots(_)
\* sanitized.replace(/^[\s.]+|[\s.]+$/g, '')
TrimDots(s) ==
    IF s = <<>> THEN s
    ELSE IF s[1] \in {".", " "} THEN TrimDots(Tail(s))
    ELSE IF s[Len(s)] \in {".", " "} THEN TrimDots(SubSeq(s, 1, Len(s) - 1))
    ELSE s

IllegalChars == {"<", ">", ":", "\"", "/", "\\", "|", "?", "*"}

sanitizeFilename(filename) ==
    LET trimmed == TrimDots(ReplaceDotDot(filename))
        sanitized == [i \in 1..Len(trimmed) |->
                        IF trimmed[i] \in IllegalChars THEN "_" ELSE trimmed[i]]
    IN  IF sanitized = <<>> THEN <<"unnamed">> ELSE sanitized

\* path.split(/[/\\]/), every part sanitized, the empty and dot parts dropped
sanitizePath(path) ==
    LET parts == SplitPath(BackslashesToSlashes(path))
        safe == [i \in 1..Len(parts) |-> sanitizeFilename(parts[i])]
    IN  JoinSegs(SelectSeq(safe, LAMBDA part :
                    part # <<>> /\ part # <<".">> /\ part # <<".", ".">>))

\* createHash('md5').update(url.search).digest('hex').slice(0, 8), written
\* as a token of its own per query string
QueryHash(search) == <<"md5">> \o Interleave(search, "&")

\* generateLocalPath, step by step: the root path and a directory path get
\* index.html
WithIndex(pathname) ==
    IF pathname = <<"/">> \/ pathname = <<>> THEN <<"/", "index", ".", "html">>
    ELSE IF pathname[Len(pathname)] = "/" THEN pathname \o <<"index", ".", "html">>
    ELSE pathname

\* a last segment without a '.' gets .html
WithExtension(pathname) ==
    IF LastIndexOf(SplitPath(pathname)[Len(SplitPath(pathname))], ".") = 0
    THEN pathname \o <<".", "html">> ELSE pathname

\* the hash of the query string goes before the extension
WithQueryHash(pathname, search) ==
    IF search = <<>> THEN pathname
    ELSE IF LastIndexOf(pathname, ".") # 0
    THEN SubSeq(pathname, 1, LastIndexOf(pathname, ".") - 1) \o <<"_">>
            \o QueryHash(search)
            \o SubSeq(pathname, LastIndexOf(pathname, "."), Len(pathname))
    ELSE pathname \o <<"_">> \o QueryHash(search)

\* pathname.split('/').filter(Boolean).map(sanitizeFilename)
SafeSegments(segments) ==
    [i \in 1..Len(segments) |-> sanitizeFilename(segments[i])]

LocalPathOf(url) ==
    sanitizePath(JoinSegs(
        <<sanitizeFilename(Interleave(HostParts(url.hostname), "."))>>
        \o SafeSegments(SelectSeq(
               SplitPath(WithQueryHash(WithExtension(WithIndex(url.pathname)),
                                       url.search)),
               LAMBDA seg : seg # <<>>))))

generateLocalPath(urlString) == LocalPathOf(parseUrl(urlString))

\* `${base}_${counter}${ext}`
Suffixed(base, counter, ext) == base \o <<"_", ToString(counter)>> \o ext

RECURSIVE FirstFree(_, _, _, _)
\* the while loop of ensureUniquePath, entered with counter and newPath set
FirstFree(this, base, ext, counter) ==
    IF Suffixed(base, counter, ext) \notin this.usedPaths THEN Suffixed(base, counter, ext)
    ELSE IF counter + 1 > 10000 THEN base \o <<"_", "md5now">> \o ext
    ELSE FirstFree(this, base, ext, counter + 1)

ensureUniquePath_same(this, path) == path

ensureUniquePath(this, path) ==
    IF path \notin this.usedPaths THEN path
    ELSE
        LET lastDot == LastIndexOf(path, ".")
            base == IF lastDot # 0 THEN SubSeq(path, 1, lastDot - 1) ELSE path
            ext == IF lastDot # 0 THEN SubSeq(path, lastDot, Len(path)) ELSE <<>>
        IN  FirstFree(this, base, ext, 1)

\* what registerUrl returns when it returns no path
NoPath == <<>>

\* registerUrl: threw is TRUE when it throws `Invalid URL`
registerUrl(this, url) ==
    LET normalized == normalizeUrl(url) IN
    IF normalized = Null
    THEN [threw |-> TRUE, ret |-> NoPath, urlToPath |-> this.urlToPath,
          pathToUrl |-> this.pathToUrl, usedPaths |-> this.usedPaths]
    ELSE IF normalized \in DOMAIN this.urlToPath
    THEN [threw |-> FALSE, ret |-> this.urlToPath[normalized], urlToPath |-> this.urlToPath,
          pathToUrl |-> this.pathToUrl, usedPaths |-> this.usedPaths]
    ELSE
        LET localPath == generateLocalPath(url)
            uniquePath == ensureUniquePath(this, localPath)
        IN  [threw |-> FALSE, ret |-> uniquePath,
             urlToPath |-> (normalized :> uniquePath) @@ this.urlToPath,
             pathToUrl |-> (uniquePath :> normalized) @@ this.pathToUrl,
             usedPaths |-> this.usedPaths \cup {uniquePath}]

\* getLocalPath(url); NoPath stands for undefined
getLocalPath(this, url) ==
    LET normalized == normalizeUrl(url) IN
    IF normalized # Null /\ normalized \in DOMAIN this.urlToPath
    THEN this.urlToPath[normalized] ELSE NoPath

\* LinkRewriter.getRelativePath(fromPath, toPath)
getRelativePath(fromPath, toPath) ==
    LET fromAll == SplitPath(fromPath)
        fromParts == SubSeq(fromAll, 1, Len(fromAll) - 1)
        toParts == SplitPath(toPath)
        Common == { n \in 0..Len(fromParts) :
                      /\ n <= Len(toParts)
                      /\ \A i \in 1..n : fromParts[i] = toParts[i] }
        commonLength == CHOOSE n \in Common : \A m \in Common : m <= n
        upCount == Len(fromParts) - commonLength
        upPath == [i \in 1..(3 * upCount) |->
                      IF i % 3 = 0 THEN "/" ELSE "."]
        downPath == JoinSegs(SubSeq(toParts, commonLength + 1, Len(toParts)))
        result == upPath \o downPath
    IN  IF result = <<>> THEN <<".", "/">> ELSE result

(***************************************************************************)
(* The URLs a LinkRewriter is exercised with                               *)
(***************************************************************************)
\* http://a.test/index.html: the local path of the seed is its own
R_index == Url("http", H_a, "", <<"/", "index", ".", "html">>, <<>>, "")
\* http://a.test/p.html: the local path of U_p is its own
R_phtml == Url("http", H_a, "", <<"/", "p", ".", "html">>, <<>>, "")
\* https://a.test/p: U_p on another scheme
R_ps == Url("https", H_a, "", <<"/", "p">>, <<>>, "")
\* http://a.test/p_1.html: the path a first collision on p.html is given
R_p1 == Url("http", H_a, "", <<"/", "p", "_", "1", ".", "html">>, <<>>, "")
\* http://a.test/p?b=2&a=1 and http://a.test/p?a=1&b=2: one canonical URL
R_q == Url("http", H_a, "", <<"/", "p">>, <<"b=2", "a=1">>, "")
R_qSorted == Url("http", H_a, "", <<"/", "p">>, <<"a=1", "b=2">>, "")

RewriterUrls == {U_seed, R_index, U_p, U_pAlias, R_phtml, R_ps, R_p1, R_q, R_qSorted, BadUrl}

Registry == [urlToPath |-> urlToPath, pathToUrl |-> pathToUrl, usedPaths |-> usedPaths]

NoReg == [op |-> "none", url |-> Null, ret |-> NoPath, threw |-> FALSE]

\* new LinkRewriter()
RewriterStart ==
    /\ urlToPath = <<>>
    /\ pathToUrl = <<>>
    /\ usedPaths = {}
    /\ rLast = NoReg
    /\ rOps = 0

RewriterInit ==
    /\ RewriterStart
    /\ GuardIdle
    /\ FetchIdle
    /\ StorageIdle
    /\ QueueIdle
    /\ EngineIdle
    /\ ParserIdle
    /\ RunIdle
    /\ NormIdle
    /\ BodyIdle
    /\ RateIdle

RegisterUrl(url) ==
    /\ rOps < MaxRegs
    /\ \E r \in {registerUrl(Registry, url)} :
       /\ urlToPath' = r.urlToPath
       /\ pathToUrl' = r.pathToUrl
       /\ usedPaths' = r.usedPaths
       /\ rLast' = [op |-> "registerUrl", url |-> url, ret |-> r.ret, threw |-> r.threw]
    /\ rOps' = rOps + 1
    /\ UNCHANGED notRewriter

\* clear()
Clear ==
    /\ rOps < MaxRegs
    /\ urlToPath' = <<>>
    /\ pathToUrl' = <<>>
    /\ usedPaths' = {}
    /\ rLast' = [op |-> "clear", url |-> Null, ret |-> NoPath, threw |-> FALSE]
    /\ rOps' = rOps + 1
    /\ UNCHANGED notRewriter

RewriterNext ==
    \/ \E url \in RewriterUrls : RegisterUrl(url)
    \/ Clear

SpecRewriter == RewriterInit /\ [][RewriterNext]_vars

(***************************************************************************)
(* parsers/html.ts and parsers/css.ts.  A document is the list of its      *)
(* nodes that carry URL references; a reference is the text written in the *)
(* document, with an empty scheme when it is written without one and       *)
(* authority FALSE when it is written without `//host`.  A value that was  *)
(* rewritten is the text of a local link.                                  *)
(***************************************************************************)
Ref(scheme, authority, hostname, port, pathname, search, hash) ==
    [kind |-> "ref", scheme |-> scheme, authority |-> authority,
     hostname |-> hostname, port |-> port, pathname |-> pathname,
     search |-> search, hash |-> hash, path |-> <<>>]

\* the text toRoot + localPath
LocalLink(path) ==
    [kind |-> "local", scheme |-> "", authority |-> FALSE, hostname |-> Name(<<>>),
     port |-> "", pathname |-> <<>>, search |-> <<>>, hash |-> "", path |-> path]

\* new URL(value): a text without a scheme is not a URL
newURL(value) ==
    IF value.kind # "ref" \/ value.scheme = "" THEN BadUrl
    ELSE Url(value.scheme, value.hostname, value.port, value.pathname,
             value.search, value.hash)

\* new URL(value, base): the scheme, the authority and the directory that
\* the text leaves out are those of base
newURLWithBase(value, base) ==
    IF value.kind # "ref" \/ ~base.valid THEN BadUrl
    ELSE IF value.scheme # "" THEN newURL(value)
    ELSE
        LET b == parseUrl(base) IN
        IF value.authority
        THEN Url(b.protocol, value.hostname, value.port, value.pathname,
                 value.search, value.hash)
        ELSE IF value.pathname = <<>>
        THEN Url(b.protocol, b.hostname, b.port, b.pathname,
                 IF value.search = <<>> THEN b.search ELSE value.search, value.hash)
        ELSE IF value.pathname[1] = "/"
        THEN Url(b.protocol, b.hostname, b.port, normalizePath(value.pathname),
                 value.search, value.hash)
        ELSE Url(b.protocol, b.hostname, b.port,
                 normalizePath(SubSeq(b.pathname, 1, LastSlash(b.pathname))
                                   \o value.pathname),
                 value.search, value.hash)

\* resolveUrl(relative, base): the href, Null when new URL throws
resolveUrl(relative, base) == newURLWithBase(relative, base)

\* shouldSkipUrl(url)
shouldSkipUrl(url) ==
    \/ toLowerCase(url.scheme) \in {"data", "blob", "javascript", "mailto", "tel", "sms"}
    \/ /\ url.scheme = "" /\ ~url.authority /\ url.pathname = <<>>
       /\ url.search = <<>>

\* an ExtractedLink
Link(url, type) == [url |-> url, type |-> type]

\* the nodes of a document: an element attribute of LINK_SELECTORS, a
\* srcset attribute with its candidates and their descriptors, the url()
\* references of a style attribute or a style tag; in a stylesheet an
\* @import and the url() references of a declaration
AttrNode(value) == [node |-> "attr", values |-> <<value>>, descriptors |-> <<"">>]
SrcsetNode(values, descriptors) ==
    [node |-> "srcset", values |-> values, descriptors |-> descriptors]
StyleNode(values) ==
    [node |-> "style", values |-> values, descriptors |-> [i \in DOMAIN values |-> ""]]
ImportNode(value) == [node |-> "import", values |-> <<value>>, descriptors |-> <<"">>]
DeclNode(values) ==
    [node |-> "decl", values |-> values, descriptors |-> [i \in DOMAIN values |-> ""]]

\* the references of a document in document order, as <<node, position>>
RECURSIVE RefsFrom(_, _, _)
RefsFrom(doc, i, j) ==
    IF i > Len(doc) THEN <<>>
    ELSE IF j > Len(doc[i].values) THEN RefsFrom(doc, i + 1, 1)
    ELSE <<(<<i, j>>)>> \o RefsFrom(doc, i, j + 1)

RefsOf(doc) == RefsFrom(doc, 1, 1)

\* parseHtml: the link a reference is extracted as, Null when it is skipped
\* or does not resolve
ExtractedAs(value, baseUrl) ==
    IF shouldSkipUrl(value) THEN Null ELSE resolveUrl(value, baseUrl)

RECURSIVE CollectLinks(_, _, _, _)
\* the loops of parseHtml over the selectors, the style attributes and the
\* style tags: a link is pushed unless its URL was seen
CollectLinks(doc, refs, baseUrl, links) ==
    IF refs = <<>> THEN links
    ELSE
        LET at == Head(refs)
            node == doc[at[1]]
            resolved == ExtractedAs(node.values[at[2]], baseUrl)
            seen == { normalizeUrl(links[n].url) : n \in DOMAIN links }
        IN  IF resolved = Null \/ normalizeUrl(resolved) = Null
                 \/ normalizeUrl(resolved) \in seen
            THEN CollectLinks(doc, Tail(refs), baseUrl, links)
            ELSE CollectLinks(doc, Tail(refs), baseUrl,
                     Append(links, Link(resolved,
                         IF node.node = "attr" THEN "page" ELSE "asset")))

\* parseHtml(html, pageUrl), for a page without a base element
parseHtml(html, pageUrl) ==
    [links |-> CollectLinks(html, RefsOf(html), pageUrl, <<>>), baseUrl |-> pageUrl]

RECURSIVE Repeat(_, _)
Repeat(s, n) == IF n = 0 THEN <<>> ELSE s \o Repeat(s, n - 1)

\* pageDepth > 0 ? '../'.repeat(pageDepth) : './'
ToRoot(localPath) ==
    LET pageDepth == Len(SplitPath(localPath)) - 1 IN
    IF pageDepth > 0 THEN Repeat(<<".", ".", "/">>, pageDepth) ELSE <<".", "/">>

\* a rewriter that writes a local link whatever the map holds
rewriteReference_unmapped(value, urlToLocalPath, toRoot, skips) ==
    LET normalized == normalizeUrl(newURL(value)) IN
    IF (skips /\ shouldSkipUrl(value)) \/ normalized = Null THEN value
    ELSE LocalLink(toRoot \o generateLocalPath(normalized))

\* the replacement of one reference: skipped references (outside srcset),
\* texts normalizeUrl returns null for and URLs without a local path stay
rewriteReference(value, urlToLocalPath, toRoot, skips) ==
    IF skips /\ shouldSkipUrl(value) THEN value
    ELSE
        LET normalized == normalizeUrl(newURL(value)) IN
        IF normalized = Null THEN value
        ELSE IF normalized \in DOMAIN urlToLocalPath
                  /\ urlToLocalPath[normalized] # <<>>
        THEN LocalLink(toRoot \o urlToLocalPath[normalized])
        ELSE value

\* rewriteCssUrls of html.ts, on the url() references of a style
htmlRewriteCssUrls(values, urlToLocalPath, toRoot) ==
    [i \in DOMAIN values |-> rewriteReference(values[i], urlToLocalPath, toRoot, TRUE)]

\* rewriteHtmlLinks(html, urlToLocalPath, pageLocalPath)
rewriteHtmlLinks(html, urlToLocalPath, pageLocalPath) ==
    LET toRoot == ToRoot(pageLocalPath) IN
    [i \in DOMAIN html |->
        CASE html[i].node = "srcset" ->
                [html[i] EXCEPT !.values =
                    [j \in DOMAIN @ |->
                        rewriteReference(@[j], urlToLocalPath, toRoot, FALSE)]]
          [] html[i].node = "attr" ->
                [html[i] EXCEPT !.values =
                    [j \in DOMAIN @ |->
                        rewriteReference(@[j], urlToLocalPath, toRoot, TRUE)]]
          [] html[i].node = "style" ->
                [html[i] EXCEPT !.values = htmlRewriteCssUrls(@, urlToLocalPath, toRoot)]
          [] OTHER -> html[i]]

\* rewriteCssUrls(css, urlToLocalPath, toRoot) of css.ts: the @import rules
\* and the declarations of the parsed stylesheet
rewriteCssUrls(css, urlToLocalPath, toRoot) ==
    [i \in DOMAIN css |->
        IF css[i].node \in {"import", "decl"}
        THEN [css[i] EXCEPT !.values =
                 [j \in DOMAIN @ |->
                     rewriteReference(@[j], urlToLocalPath, toRoot, TRUE)]]
        ELSE css[i]]

\* where a relative link written in the file at fromPath leads
ResolveFrom(fromPath, link) ==
    LET fromAll == SplitPath(fromPath)
        dir == SubSeq(fromAll, 1, Len(fromAll) - 1)
    IN  JoinSegs(ResolveSegs(dir \o SplitPath(link), <<>>))

(***************************************************************************)
(* The pages, references and maps the parsers are exercised with          *)
(***************************************************************************)
\* http://a.test/d/q: a page one directory down
P_deep == Url("http", H_a, "", <<"/", "d", "/", "q">>, <<>>, "")
\* http://b.test/j.png: an image that was never fetched
P_other == Url("http", H_b, "", <<"/", "j", ".", "png">>, <<>>, "")

Pages == {U_seed, P_deep}

\* the stylesheet http://a.test/s.css written in full, as HTTP://A.TEST:80/s.css#x,
\* as /s.css and as s.css
T_css == Ref("http", TRUE, H_a, "", <<"/", "s", ".", "css">>, <<>>, "")
T_cssAlias == Ref("HTTP", TRUE, Name(<<"A", "TEST">>), "80", <<"/", "s", ".", "css">>, <<>>, "x")
T_cssRoot == Ref("", FALSE, Name(<<>>), "", <<"/", "s", ".", "css">>, <<>>, "")
T_cssRel == Ref("", FALSE, Name(<<>>), "", <<"s", ".", "css">>, <<>>, "")
\* the image http://b.test/i.png written in full and as //b.test/i.png
T_img == Ref("http", TRUE, H_b, "", <<"/", "i", ".", "png">>, <<>>, "")
T_imgNoScheme == Ref("", TRUE, H_b, "", <<"/", "i", ".", "png">>, <<>>, "")
\* http://b.test/j.png
T_other == Ref("http", TRUE, H_b, "", <<"/", "j", ".", "png">>, <<>>, "")
\* #top and data:x
T_fragment == Ref("", FALSE, Name(<<>>), "", <<>>, <<>>, "top")
T_data == Ref("data", FALSE, Name(<<>>), "", <<"x">>, <<>>, "")

AttrRefs == {T_css, T_cssAlias, T_cssRoot, T_cssRel, T_imgNoScheme, T_fragment, T_data}
SrcsetRefs == {T_img, T_imgNoScheme, T_other}
StyleRefs == {T_img, T_cssRoot, T_other}

\* the URLs that may have been registered, in the order of their registration
Targets == <<U_seed, P_deep, U_css, U_img>>

RECURSIVE RegisterAll(_, _, _)
\* the registry after registerUrl of the URLs of urls that are in chosen
RegisterAll(this, urls, chosen) ==
    IF urls = <<>> THEN this
    ELSE IF Head(urls) \in chosen
    THEN The({ RegisterAll([urlToPath |-> r.urlToPath, pathToUrl |-> r.pathToUrl,
                             usedPaths |-> r.usedPaths], Tail(urls), chosen) :
                 r \in {registerUrl(this, Head(urls))} })
    ELSE RegisterAll(this, Tail(urls), chosen)

EmptyRegistry == [urlToPath |-> <<>>, pathToUrl |-> <<>>, usedPaths |-> {}]

\* getMappings() after the URLs of chosen were registered
MappingsOf(chosen) == RegisterAll(EmptyRegistry, Targets, chosen).urlToPath

ParserInit ==
    /\ hPageUrl \in Pages
    /\ hPagePath = generateLocalPath(normalizeUrl(hPageUrl))
    /\ \E a \in AttrRefs, s1 \in SrcsetRefs \ {T_imgNoScheme}, s2 \in SrcsetRefs,
          c \in StyleRefs :
          hHtml = <<AttrNode(a), SrcsetNode(<<s1, s2>>, <<"1x", "2x">>), StyleNode(<<c>>)>>
    /\ \E i \in {T_css, T_cssRel}, d \in {T_img, T_other} :
          hCss = <<ImportNode(i), DeclNode(<<d>>)>>
    /\ \E chosen \in SUBSET {U_css, U_img} :
          hMap \in {MappingsOf(chosen), MappingsOf(chosen \cup {hPageUrl})}
    /\ hLinks = <<>>
    /\ hOut = <<>>
    /\ hCssOut = <<>>
    /\ GuardIdle
    /\ FetchIdle
    /\ StorageIdle
    /\ QueueIdle
    /\ EngineIdle
    /\ RewriterIdle
    /\ RunIdle
    /\ NormIdle
    /\ BodyIdle
    /\ RateIdle

ParseHtml ==
    /\ hLinks = <<>>
    /\ hLinks' = parseHtml(hHtml, hPageUrl)
    /\ UNCHANGED <<hPageUrl, hPagePath, hHtml, hCss, hMap, hOut, hCssOut>>
    /\ UNCHANGED notParser

RewriteHtmlLinks ==
    /\ hOut = <<>>
    /\ hOut' = rewriteHtmlLinks(hHtml, hMap, hPagePath)
    /\ UNCHANGED <<hPageUrl, hPagePath, hHtml, hCss, hMap, hLinks, hCssOut>>
    /\ UNCHANGED notParser

\* the stylesheet is the one stored for http://a.test/s.css
RewriteCssUrls ==
    /\ hCssOut = <<>>
    /\ hCssOut' = rewriteCssUrls(hCss, hMap, ToRoot(generateLocalPath(normalizeUrl(U_css))))
    /\ UNCHANGED <<hPageUrl, hPagePath, hHtml, hCss, hMap, hLinks, hOut>>
    /\ UNCHANGED notParser

ParserNext ==
    \/ ParseHtml
    \/ RewriteHtmlLinks
    \/ RewriteCssUrls

SpecParser == ParserInit /\ [][ParserNext]_vars

(***************************************************************************)
(* CrawlEngine (crawler/engine.ts).  Every start() call runs a crawlLoop   *)
(* of its own; a processUrl call is named by the entry it processes.  The  *)
(* fetcher is seen from outside: a call waits out its delay, waits in the  *)
(* pool, runs, and returns a failure or a result.                          *)
(***************************************************************************)
Loops == 1..MaxStarts


\* the site crawled: what parseHtml / parseCss extract from the body served
\* at a (final) URL, and the content type it is served with
Web(url) ==
    LET n == normalizeUrl(url) IN
    CASE n = normalizeUrl(U_seed) ->
            [type |-> "html",
             links |-> <<Link(U_pAlias, "page"), Link(U_img, "asset"), Link(U_other, "page")>>]
      [] n = normalizeUrl(U_p) ->
            [type |-> "html", links |-> <<Link(U_sub, "page"), Link(U_css, "asset")>>]
      [] n = normalizeUrl(U_css) ->
            [type |-> "css", links |-> <<Link(U_img, "asset")>>]
      [] n = normalizeUrl(U_sub) ->
            [type |-> "html", links |-> <<Link(U_seed, "page")>>]
      [] n = normalizeUrl(U_other) ->
            [type |-> "html", links |-> <<Link(U_sub, "page")>>]
      [] OTHER -> [type |-> "other", links |-> <<>>]

\* where a fetch of url may end: at url itself, or at the page the site
\* redirects it to
FinalUrls(url) ==
    IF normalizeUrl(url) = normalizeUrl(U_p) THEN {url, U_other} ELSE {url}

\* the URLs whose fetch may return a failure, and those whose body
\* storage.writeFile may refuse
FailingFetches == {U_p, U_pAlias, U_img}
FailingWrites == {U_img}

\* the options an engine is built with
EngineOptions ==
    { [DefaultOptions EXCEPT !.scope = "same-host", !.concurrency = MaxConcurrency],
      DefaultOptions,
      [DefaultOptions EXCEPT !.unlimitedMode = TRUE] }

\* the frontier while a handler runs: its fields and the two histories
Frontier == [queue |-> queue, pendingUrls |-> pendingUrls, via |-> qVia, last |-> qLast]

\* the frontier after one add / addAsset call returned r
AfterCall(Q, op, url, depth, r) ==
    [queue |-> r.queue, pendingUrls |-> r.pendingUrls,
     via |-> IF r.ret THEN (normalizeUrl(url) :> op) @@ Q.via ELSE Q.via,
     last |-> [op |-> op, url |-> url, depth |-> depth, ret |-> r.ret]]

ThisOf(Q) ==
    [queue |-> Q.queue, pendingUrls |-> Q.pendingUrls, options |-> qOptions,
     seedUrl |-> qSeedUrl]

\* mutant: a navigational link is enqueued two levels below the page
processLink_deeper(Q, link, finalUrl, depth) ==
    IF normalizeUrl(link.url) = Null THEN Q
    ELSE IF link.type = "asset"
    THEN The({ AfterCall(Q, "addAsset", link.url, depth, r) :
                 r \in {addAsset(ThisOf(Q), link.url, finalUrl, depth)} })
    ELSE The({ AfterCall(Q, "add", link.url, depth + 2, r) :
                 r \in {add(ThisOf(Q), link.url, finalUrl, depth + 2)} })

\* one turn of the loop of processHtml: the link is handed to addAsset or to add
processLink(Q, link, finalUrl, depth) ==
    IF normalizeUrl(link.url) = Null THEN Q
    ELSE IF link.type = "asset"
    THEN The({ AfterCall(Q, "addAsset", link.url, depth, r) :
                 r \in {addAsset(ThisOf(Q), link.url, finalUrl, depth)} })
    ELSE The({ AfterCall(Q, "add", link.url, depth + 1, r) :
                 r \in {add(ThisOf(Q), link.url, finalUrl, depth + 1)} })

RECURSIVE processHtml(_, _, _, _)
processHtml(Q, links, finalUrl, depth) ==
    IF links = <<>> THEN Q
    ELSE The({ processHtml(Q1, Tail(links), finalUrl, depth) :
                 Q1 \in {processLink(Q, Head(links), finalUrl, depth)} })

RECURSIVE processCss(_, _, _, _)
processCss(Q, urls, finalUrl, depth) ==
    IF urls = <<>> THEN Q
    ELSE The({ processCss(Q1, Tail(urls), finalUrl, depth) :
                 Q1 \in { The({ AfterCall(Q, "addAsset", Head(urls).url, depth, r) :
                             r \in {addAsset(ThisOf(Q), Head(urls).url, finalUrl,
                                              depth)} }) } })

\* a start() call that has not returned a result
NoResult == [built |-> FALSE, success |-> FALSE, errors |-> <<>>]

CrawlResult_whateverAborted(aborted, errors) ==
    [built |-> TRUE, success |-> Len(errors) = 0, errors |-> errors]

\* the CrawlResult start() builds
CrawlResult(aborted, errors) ==
    [built |-> TRUE, success |-> ~aborted /\ Len(errors) = 0, errors |-> errors]

\* a record of CrawlEngine.errors
CrawlError(url, error) == [url |-> url, error |-> error]

\* new URL(s) for a string s: without a scheme and ':' the parser throws,
\* with `scheme://host/path` it gives the URL
StringAsUrl(s) ==
    IF Len(s) >= 5 /\ s[2] = ":" /\ s[3] = "/" /\ s[4] = "/"
    THEN LET rest == SubSeq(s, 5, Len(s))
             Slashes == { i \in 1..Len(rest) : rest[i] = "/" }
             slash == IF Slashes = {} THEN Len(rest) + 1
                      ELSE CHOOSE i \in Slashes : \A j \in Slashes : i <= j
             host == SelectSeq(SubSeq(rest, 1, slash - 1), LAMBDA t : t # ".")
         IN  Url(s[1], Name(host), "", SubSeq(rest, slash, Len(rest)), <<>>, "")
    ELSE BadUrl

\* the files rewriteAllLinks passes through a rewriter and writes back
Rewritable(files) ==
    { file \in files :
        getMimeCategory(getExtensionFromUrl(StringAsUrl(file))) \in {"html", "css"} }

NewTask(l) == [pc |-> "delay", loop |-> l, finalUrl |-> Null, localPath |-> NoPath]

EngineInit ==
    /\ \E options \in EngineOptions : QueueStart(U_seed, options)
    /\ eStatus = "pending"
    /\ eAborted = FALSE
    /\ ePoolPaused = FALSE
    /\ eDisallowed = IF qOptions.unlimitedMode THEN {U_css} ELSE {}
    /\ lpc = [l \in Loops |-> "none"]
    /\ lActive = [l \in Loops |-> {}]
    /\ lWait = [l \in Loops |-> {}]
    /\ tasks = <<>>
    /\ eStored = {}
    /\ pagesProcessed = 0
    /\ assetsProcessed = 0
    /\ eErrors = <<>>
    /\ eFiles = <<>>
    /\ eRewritten = {}
    /\ lResult = [l \in Loops |-> NoResult]
    /\ eFinalOf = <<>>
    /\ eCancelCalled = FALSE
    /\ RewriterStart
    /\ GuardIdle
    /\ FetchIdle
    /\ StorageIdle
    /\ ParserIdle
    /\ RunIdle
    /\ NormIdle
    /\ BodyIdle
    /\ RateIdle

queueFixed == <<qOptions, qSeedUrl, qOps>>
restSame == <<eFiles, eRewritten, lResult, eFinalOf, eCancelCalled, rewriterVars>>
queueSame == <<qOptions, qSeedUrl, queue, pendingUrls, qVia, qLast, qOps>>
countersSame == <<eStored, pagesProcessed, assetsProcessed, eErrors>>

\* start(), up to its first await
Start(l) ==
    /\ eStatus \in {"pending", "paused"}
    /\ lpc[l] = "none"
    /\ \A m \in Loops : m < l => lpc[m] # "none"
    /\ eStatus' = "running"
    /\ lpc' = [lpc EXCEPT ![l] = "init"]
    /\ UNCHANGED <<eAborted, ePoolPaused, eDisallowed, lActive, lWait, tasks>>
    /\ UNCHANGED countersSame
    /\ UNCHANGED queueSame
    /\ UNCHANGED restSame
    /\ UNCHANGED notEngine

\* storage.init() and the robots.txt fetch are done: crawlLoop begins
InitDone(l) ==
    /\ lpc[l] = "init"
    /\ lpc' = [lpc EXCEPT ![l] = "loop"]
    /\ UNCHANGED <<eStatus, eAborted, ePoolPaused, eDisallowed, lActive, lWait, tasks>>
    /\ UNCHANGED countersSame
    /\ UNCHANGED queueSame
    /\ UNCHANGED restSame
    /\ UNCHANGED notEngine

\* storage.init() throws: the catch block of start()
InitFail(l) ==
    /\ lpc[l] = "init"
    /\ eStatus' = "failed"
    /\ lpc' = [lpc EXCEPT ![l] = "done"]
    /\ UNCHANGED <<eAborted, ePoolPaused, eDisallowed, lActive, lWait, tasks>>
    /\ UNCHANGED countersSame
    /\ UNCHANGED queueSame
    /\ UNCHANGED restSame
    /\ UNCHANGED notEngine

\* mutant: the rules forbid nothing
isAllowed_always(url) == TRUE

\* this.robotsRules && this.robotsRules.isAllowed(item.url): eDisallowed is
\* empty when robotsRules is null or permissive
isAllowed(url) == url \notin eDisallowed

\* the loop body from queue.next() to the next await
Dispatch(l) ==
    \E n \in {next(This)} :
    IF ~n.found
    THEN /\ queue' = n.queue
         /\ pendingUrls' = n.pendingUrls
         /\ lpc' = [lpc EXCEPT ![l] = IF lActive[l] # {} THEN "race" ELSE "drain"]
         /\ lWait' = [lWait EXCEPT ![l] = lActive[l]]
         /\ UNCHANGED <<lActive, tasks>>
    ELSE IF ~isAllowed(n.queue[n.key].url)
    THEN /\ queue' = skip([This EXCEPT !.queue = n.queue], n.key, "Blocked by robots.txt")
         /\ pendingUrls' = n.pendingUrls
         /\ lpc' = [lpc EXCEPT ![l] = "loop"]
         /\ UNCHANGED <<lActive, lWait, tasks>>
    ELSE /\ queue' = n.queue
         /\ pendingUrls' = n.pendingUrls
         /\ tasks' = (n.key :> NewTask(l)) @@ tasks
         /\ lActive' = [lActive EXCEPT ![l] = @ \cup {n.key}]
         /\ IF Cardinality(lActive[l] \cup {n.key}) >= qOptions.concurrency
            THEN /\ lpc' = [lpc EXCEPT ![l] = "race"]
                 /\ lWait' = [lWait EXCEPT ![l] = lActive[l] \cup {n.key}]
            ELSE /\ lpc' = [lpc EXCEPT ![l] = "loop"]
                 /\ UNCHANGED lWait

\* one turn of the while loop of crawlLoop, up to its next await
LoopStep(l) ==
    /\ lpc[l] = "loop"
    /\ IF ~(hasPending(This) /\ ~eAborted)
       THEN /\ lpc' = [lpc EXCEPT ![l] = "drain"]
            /\ UNCHANGED <<queue, pendingUrls, lActive, lWait, tasks>>
       ELSE IF eStatus = "paused"
       THEN /\ lpc' = [lpc EXCEPT ![l] = "resume-wait"]
            /\ UNCHANGED <<queue, pendingUrls, lActive, lWait, tasks>>
       ELSE Dispatch(l)
    /\ UNCHANGED <<eStatus, eAborted, ePoolPaused, eDisallowed, qVia, qLast>>
    /\ UNCHANGED countersSame
    /\ UNCHANGED queueFixed
    /\ UNCHANGED restSame
    /\ UNCHANGED notEngine

\* waitForResume resolves, and the turn goes on
ResumeWake(l) ==
    /\ lpc[l] = "resume-wait"
    /\ eStatus # "paused" \/ eAborted
    /\ IF eAborted
       THEN /\ lpc' = [lpc EXCEPT ![l] = "drain"]
            /\ UNCHANGED <<queue, pendingUrls, lActive, lWait, tasks>>
       ELSE Dispatch(l)
    /\ UNCHANGED <<eStatus, eAborted, ePoolPaused, eDisallowed, qVia, qLast>>
    /\ UNCHANGED countersSame
    /\ UNCHANGED queueFixed
    /\ UNCHANGED restSame
    /\ UNCHANGED notEngine

\* Promise.race(activeFetches) resolves: one of the promises it was given
\* has settled, its finally callback included
RaceWake(l) ==
    /\ lpc[l] = "race"
    /\ lWait[l] \ lActive[l] # {}
    /\ lpc' = [lpc EXCEPT ![l] = "loop"]
    /\ lWait' = [lWait EXCEPT ![l] = {}]
    /\ UNCHANGED <<eStatus, eAborted, ePoolPaused, eDisallowed, lActive, tasks>>
    /\ UNCHANGED countersSame
    /\ UNCHANGED queueSame
    /\ UNCHANGED restSame
    /\ UNCHANGED notEngine

\* Promise.all(activeFetches) resolves and crawlLoop returns
DrainDone(l) ==
    /\ lpc[l] = "drain"
    /\ lActive[l] = {}
    /\ lpc' = [lpc EXCEPT ![l] = "rewrite"]
    /\ UNCHANGED <<eStatus, eAborted, ePoolPaused, eDisallowed, lActive, lWait, tasks>>
    /\ UNCHANGED countersSame
    /\ UNCHANGED queueSame
    /\ UNCHANGED restSame
    /\ UNCHANGED notEngine

\* rewriteAllLinks returns and start() ends
RewriteDone(l) ==
    /\ lpc[l] = "rewrite"
    /\ eRewritten' = eRewritten \cup Rewritable(DOMAIN eFiles)
    /\ eStatus' = IF eAborted THEN "cancelled" ELSE "complete"
    /\ lResult' = [lResult EXCEPT ![l] = CrawlResult(eAborted, eErrors)]
    /\ lpc' = [lpc EXCEPT ![l] = "done"]
    /\ UNCHANGED <<eAborted, ePoolPaused, eDisallowed, lActive, lWait, tasks>>
    /\ UNCHANGED countersSame
    /\ UNCHANGED queueSame
    /\ UNCHANGED <<eFiles, eFinalOf, eCancelCalled, rewriterVars>>
    /\ UNCHANGED notEngine

\* storage.listFiles throws in rewriteAllLinks: the catch block of start()
RewriteFail(l) ==
    /\ lpc[l] = "rewrite"
    /\ eStatus' = "failed"
    /\ lpc' = [lpc EXCEPT ![l] = "done"]
    /\ UNCHANGED <<eAborted, ePoolPaused, eDisallowed, lActive, lWait, tasks>>
    /\ UNCHANGED countersSame
    /\ UNCHANGED queueSame
    /\ UNCHANGED restSame
    /\ UNCHANGED notEngine

TaskAt(k, pc) == k \in DOMAIN tasks /\ tasks[k].pc = pc

taskOnly == <<eStatus, eAborted, ePoolPaused, eDisallowed, lpc, lActive, lWait>>

\* Fetcher.fetch: the delays are over, the request is handed to the pool
FetchQueued(k) ==
    /\ TaskAt(k, "delay")
    /\ tasks' = [tasks EXCEPT ![k].pc = "queued"]
    /\ UNCHANGED taskOnly
    /\ UNCHANGED countersSame
    /\ UNCHANGED queueSame
    /\ UNCHANGED restSame
    /\ UNCHANGED notEngine

\* the pool (concurrency: options.concurrency) starts the request
FetchStarted(k) ==
    /\ TaskAt(k, "queued")
    /\ ~ePoolPaused
    /\ Cardinality({ j \in DOMAIN tasks : tasks[j].pc = "running" }) < qOptions.concurrency
    /\ tasks' = [tasks EXCEPT ![k].pc = "running"]
    /\ UNCHANGED taskOnly
    /\ UNCHANGED countersSame
    /\ UNCHANGED queueSame
    /\ UNCHANGED restSame
    /\ UNCHANGED notEngine

\* processUrl: the fetch returned a failure
FetchFailed(k) ==
    /\ TaskAt(k, "running")
    /\ queue[k].url \in FailingFetches
    /\ queue' = fail(This, k, "fetch error")
    /\ eErrors' = Append(eErrors, CrawlError(queue[k].url, "fetch error"))
    /\ tasks' = [tasks EXCEPT ![k].pc = "settled"]
    /\ UNCHANGED taskOnly
    /\ UNCHANGED <<eStored, pagesProcessed, assetsProcessed>>
    /\ UNCHANGED <<qOptions, qSeedUrl, pendingUrls, qVia, qLast, qOps>>
    /\ UNCHANGED restSame
    /\ UNCHANGED notEngine

\* processUrl: the fetch returned a result that ended at finalUrl; the
\* final URL is registered, the entry's own URL too after a redirect, and
\* storage.writeFile is called
FetchSucceeded(k, finalUrl) ==
    /\ TaskAt(k, "running")
    /\ \E first \in {registerUrl(Registry, finalUrl)} :
       \E second \in {IF finalUrl # queue[k].url
                       THEN registerUrl([urlToPath |-> first.urlToPath,
                                         pathToUrl |-> first.pathToUrl,
                                         usedPaths |-> first.usedPaths], queue[k].url)
                       ELSE first} :
           /\ urlToPath' = second.urlToPath
           /\ pathToUrl' = second.pathToUrl
           /\ usedPaths' = second.usedPaths
           /\ rLast' = [op |-> "registerUrl",
                        url |-> IF finalUrl # queue[k].url THEN queue[k].url
                                ELSE finalUrl,
                        ret |-> second.ret, threw |-> second.threw]
           /\ tasks' = [tasks EXCEPT ![k].pc = "write", ![k].finalUrl = finalUrl,
                                     ![k].localPath = first.ret]
    /\ UNCHANGED taskOnly
    /\ UNCHANGED countersSame
    /\ UNCHANGED queueSame
    /\ UNCHANGED <<eFiles, eRewritten, lResult, eFinalOf, eCancelCalled, rOps>>
    /\ UNCHANGED notEngine

\* processUrl: the body is stored under the local path, its links are
\* enqueued and the entry is complete
Stored(k) ==
    /\ TaskAt(k, "write")
    /\ \E finalUrl \in {tasks[k].finalUrl} :
       \E body \in {Web(finalUrl)} :
       \E Q \in {CASE body.type = "html" ->
                        processHtml(Frontier, body.links, finalUrl, queue[k].depth)
                  [] body.type = "css" ->
                        processCss(Frontier, body.links, finalUrl, queue[k].depth)
                  [] OTHER -> Frontier} :
           /\ queue' = complete(ThisOf(Q), k)
           /\ pendingUrls' = Q.pendingUrls
           /\ qVia' = Q.via
           /\ qLast' = Q.last
           /\ eStored' = eStored \cup {normalizeUrl(finalUrl)}
           /\ eFiles' = (tasks[k].localPath :> normalizeUrl(finalUrl)) @@ eFiles
           /\ eFinalOf' = (k :> normalizeUrl(finalUrl)) @@ eFinalOf
           /\ pagesProcessed' = IF body.type = "html" THEN pagesProcessed + 1
                                ELSE pagesProcessed
           /\ assetsProcessed' = IF body.type = "html" THEN assetsProcessed
                                 ELSE assetsProcessed + 1
    /\ tasks' = [tasks EXCEPT ![k].pc = "settled"]
    /\ UNCHANGED taskOnly
    /\ UNCHANGED eErrors
    /\ UNCHANGED queueFixed
    /\ UNCHANGED <<eRewritten, lResult, eCancelCalled, rewriterVars>>
    /\ UNCHANGED notEngine

\* processUrl: storage.writeFile throws, the catch block fails the entry
StoreFailed(k) ==
    /\ TaskAt(k, "write")
    /\ queue[k].url \in FailingWrites
    /\ queue' = fail(This, k, "thrown")
    /\ eErrors' = Append(eErrors, CrawlError(queue[k].url, "thrown"))
    /\ tasks' = [tasks EXCEPT ![k].pc = "settled"]
    /\ UNCHANGED taskOnly
    /\ UNCHANGED <<eStored, pagesProcessed, assetsProcessed>>
    /\ UNCHANGED <<qOptions, qSeedUrl, pendingUrls, qVia, qLast, qOps>>
    /\ UNCHANGED restSame
    /\ UNCHANGED notEngine

\* the finally callback of crawlLoop takes the promise off activeFetches
Settled(k) ==
    /\ TaskAt(k, "settled")
    /\ lActive' = [lActive EXCEPT ![tasks[k].loop] = @ \ {k}]
    /\ tasks' = [j \in DOMAIN tasks \ {k} |-> tasks[j]]
    /\ UNCHANGED <<eStatus, eAborted, ePoolPaused, eDisallowed, lpc, lWait>>
    /\ UNCHANGED countersSame
    /\ UNCHANGED queueSame
    /\ UNCHANGED restSame
    /\ UNCHANGED notEngine

pause ==
    /\ eStatus = "running"
    /\ eStatus' = "paused"
    /\ ePoolPaused' = TRUE
    /\ UNCHANGED <<eAborted, eDisallowed, lpc, lActive, lWait, tasks>>
    /\ UNCHANGED countersSame
    /\ UNCHANGED queueSame
    /\ UNCHANGED restSame
    /\ UNCHANGED notEngine

resume ==
    /\ eStatus = "paused"
    /\ eStatus' = "running"
    /\ ePoolPaused' = FALSE
    /\ UNCHANGED <<eAborted, eDisallowed, lpc, lActive, lWait, tasks>>
    /\ UNCHANGED countersSame
    /\ UNCHANGED queueSame
    /\ UNCHANGED restSame
    /\ UNCHANGED notEngine

\* cancel(), with Fetcher.abort: the requests waiting in the pool are dropped
\* and their promises never settle
cancel ==
    /\ eAborted' = TRUE
    /\ eStatus' = "cancelled"
    /\ tasks' = [k \in DOMAIN tasks |->
                    IF tasks[k].pc = "queued" THEN [tasks[k] EXCEPT !.pc = "dropped"]
                    ELSE tasks[k]]
    /\ eCancelCalled' = TRUE
    /\ UNCHANGED <<ePoolPaused, eDisallowed, lpc, lActive, lWait>>
    /\ UNCHANGED countersSame
    /\ UNCHANGED queueSame
    /\ UNCHANGED <<eFiles, eRewritten, lResult, eFinalOf, rewriterVars>>
    /\ UNCHANGED notEngine

EngineNext ==
    \/ \E l \in Loops : Start(l)
    \/ \E l \in Loops : InitDone(l)
    \/ \E l \in Loops : InitFail(l)
    \/ \E l \in Loops : LoopStep(l)
    \/ \E l \in Loops : ResumeWake(l)
    \/ \E l \in Loops : RaceWake(l)
    \/ \E l \in Loops : DrainDone(l)
    \/ \E l \in Loops : RewriteDone(l)
    \/ \E l \in Loops : RewriteFail(l)
    \/ \E k \in DOMAIN tasks : FetchQueued(k)
    \/ \E k \in DOMAIN tasks : FetchStarted(k)
    \/ \E k \in DOMAIN tasks : FetchFailed(k)
    \/ \E k \in DOMAIN tasks : \E finalUrl \in FinalUrls(queue[k].url) :
            FetchSucceeded(k, finalUrl)
    \/ \E k \in DOMAIN tasks : Stored(k)
    \/ \E k \in DOMAIN tasks : StoreFailed(k)
    \/ \E k \in DOMAIN tasks : Settled(k)
    \/ pause
    \/ resume
    \/ cancel

SpecEngine == EngineInit /\ [][EngineNext]_vars

\* a crawl nobody pauses or cancels: the event loop runs every continuation
\* that is ready, and every fetch and every write returns
CrawlNext ==
    \/ \E l \in Loops : Start(l)
    \/ \E l \in Loops : InitDone(l)
    \/ \E l \in Loops : InitFail(l)
    \/ \E l \in Loops : LoopStep(l)
    \/ \E l \in Loops : RaceWake(l)
    \/ \E l \in Loops : DrainDone(l)
    \/ \E l \in Loops : RewriteDone(l)
    \/ \E l \in Loops : RewriteFail(l)
    \/ \E k \in DOMAIN tasks : FetchQueued(k)
    \/ \E k \in DOMAIN tasks : FetchStarted(k)
    \/ \E k \in DOMAIN tasks : FetchFailed(k)
    \/ \E k \in DOMAIN tasks : \E finalUrl \in FinalUrls(queue[k].url) :
            FetchSucceeded(k, finalUrl)
    \/ \E k \in DOMAIN tasks : Stored(k)
    \/ \E k \in DOMAIN tasks : StoreFailed(k)
    \/ \E k \in DOMAIN tasks : Settled(k)

\* the continuations of start(), of crawlLoop and of a task's delay, fetch
\* queue and bookkeeping, and the failure of a fetch or of a write
CrawlSteps ==
    \/ \E l \in Loops : Start(l)
    \/ \E l \in Loops : InitDone(l)
    \/ \E l \in Loops : InitFail(l)
    \/ \E l \in Loops : LoopStep(l)
    \/ \E l \in Loops : RaceWake(l)
    \/ \E l \in Loops : DrainDone(l)
    \/ \E l \in Loops : RewriteDone(l)
    \/ \E l \in Loops : RewriteFail(l)
    \/ \E k \in DOMAIN tasks : FetchQueued(k)
    \/ \E k \in DOMAIN tasks : FetchStarted(k)
    \/ \E k \in DOMAIN tasks : FetchFailed(k)
    \/ \E k \in DOMAIN tasks : StoreFailed(k)
    \/ \E k \in DOMAIN tasks : Settled(k)

\* a fetch that is running returns, a write that was started returns
FetchReturns ==
    \/ []<>(\A k \in DOMAIN tasks : ~TaskAt(k, "running"))
    \/ []<><<\E k \in DOMAIN tasks : \E finalUrl \in FinalUrls(queue[k].url) :
                FetchSucceeded(k, finalUrl)>>_vars

WriteReturns ==
    \/ []<>(\A k \in DOMAIN tasks : ~TaskAt(k, "write"))
    \/ []<><<\E k \in DOMAIN tasks : Stored(k)>>_vars

SpecCrawl ==
    EngineInit /\ [][CrawlNext]_vars
        /\ WF_vars(CrawlSteps) /\ FetchReturns /\ WriteReturns

\* a crawl that may be paused, resumed and cancelled at any moment: every
\* continuation that is ready runs (a paused pool starts nothing), every
\* fetch that was started and every write returns
ControlSteps ==
    \/ CrawlSteps
    \/ \E l \in Loops : ResumeWake(l)

SpecControl ==
    EngineInit /\ [][EngineNext]_vars /\ WF_vars(ControlSteps)
        /\ FetchReturns /\ WriteReturns

\* a crawl that is paused and resumed at any moment and never cancelled:
\* each pause is followed by a resume and the pauses come to an end
PacedNext ==
    \/ \E l \in Loops : Start(l)
    \/ \E l \in Loops : InitDone(l)
    \/ \E l \in Loops : InitFail(l)
    \/ \E l \in Loops : LoopStep(l)
    \/ \E l \in Loops : ResumeWake(l)
    \/ \E l \in Loops : RaceWake(l)
    \/ \E l \in Loops : DrainDone(l)
    \/ \E l \in Loops : RewriteDone(l)
    \/ \E l \in Loops : RewriteFail(l)
    \/ \E k \in DOMAIN tasks : FetchQueued(k)
    \/ \E k \in DOMAIN tasks : FetchStarted(k)
    \/ \E k \in DOMAIN tasks : FetchFailed(k)
    \/ \E k \in DOMAIN tasks : \E finalUrl \in FinalUrls(queue[k].url) :
            FetchSucceeded(k, finalUrl)
    \/ \E k \in DOMAIN tasks : Stored(k)
    \/ \E k \in DOMAIN tasks : StoreFailed(k)
    \/ \E k \in DOMAIN tasks : Settled(k)
    \/ pause
    \/ resume

EventuallyResumed == <>[](eStatus # "paused")

SpecPaced ==
    EngineInit /\ [][PacedNext]_vars /\ WF_vars(ControlSteps)
        /\ FetchReturns /\ WriteReturns /\ EventuallyResumed

(***************************************************************************)
(* One run of start() together with its Fetcher: the robots.txt request of  *)
(* start(), then crawlLoop with concurrency 1, every fetch carried out by   *)
(* the fetcher actions above under one resolver answer.                    *)
(***************************************************************************)
\* http://169.254.169.254/
U_meta == Url("http", Ip4(169, 254, 169, 254), "", <<"/">>, <<>>, "")

RunSeeds == {U_seed, U_meta}

RunOptions == [DefaultOptions EXCEPT !.maxDepth = 0]

\* new URL('/robots.txt', baseUrl)
RobotsUrl(baseUrl) ==
    Url(baseUrl.protocol, baseUrl.hostname, baseUrl.port,
        <<"/", "robots", ".", "txt">>, <<>>, "")

\* same scheme, host and port
SameOrigin(a, b) ==
    /\ a.protocol = b.protocol /\ a.hostname = b.hostname /\ a.port = b.port

NoRules == [loaded |-> FALSE, disallowed |-> {}]

\* what fetchRobotsTxt may come back with: null (no answer, or not ok), or
\* rules that forbid some URLs; robots-parser answers undefined, read as
\* allowed, for a URL of another origin than the robots.txt
RobotsOutcomes(seed) ==
    {NoRules} \cup
    { [loaded |-> TRUE, disallowed |-> D] :
        D \in { E \in {{}, {seed}, {U_css}} : \A u \in E : SameOrigin(u, seed) } }

\* the entry processUrl is working on
Current == { k \in DOMAIN queue : queue[k].status = "in-progress" }

RunInit ==
    /\ \E seed \in RunSeeds : QueueStart(seed, RunOptions)
    /\ respectRobotsTxt \in BOOLEAN
    /\ seedDns \in FetchDns
    /\ eStatus = "pending"
    /\ eAborted = FALSE
    /\ ePoolPaused = FALSE
    /\ eDisallowed = {}
    /\ lpc = [l \in Loops |-> "none"]
    /\ lActive = [l \in Loops |-> {}]
    /\ lWait = [l \in Loops |-> {}]
    /\ tasks = <<>>
    /\ eStored = {}
    /\ pagesProcessed = 0
    /\ assetsProcessed = 0
    /\ eErrors = <<>>
    /\ eFiles = <<>>
    /\ eRewritten = {}
    /\ lResult = [l \in Loops |-> NoResult]
    /\ eFinalOf = <<>>
    /\ eCancelCalled = FALSE
    /\ fOpts = [followRedirects |-> TRUE, maxRedirects |-> MaxRedirectsOpt]
    /\ fAborted = FALSE
    /\ fpc = "idle"
    /\ fUrl = NoUrl
    /\ fAttempt = 0
    /\ fCur = NoUrl
    /\ fRedirects = 0
    /\ fChain = <<>>
    /\ fChecked = {}
    /\ fSent = {}
    /\ fStatus = 0
    /\ requests = {}
    /\ fBlocked = 0
    /\ fOutcome = NoOutcome
    /\ RewriterStart
    /\ GuardIdle
    /\ StorageIdle
    /\ ParserIdle
    /\ NormIdle
    /\ BodyIdle
    /\ RateIdle

runFixed == <<eStatus, eAborted, ePoolPaused, lActive, lWait, tasks>>
callOver == <<fOpts, fAborted, fUrl, fAttempt, fCur, fRedirects, fChain, fChecked, fSent,
              fStatus, requests, fBlocked>>
runRest == <<guardVars, storageVars, parserVars, runVars, normVars, bodyVars, rateVars>>

\* start(): storage.init() is done; fetchRobotsTxt(options.url, ...) when
\* respectRobotsTxt is set, permissive rules otherwise
RunRobots(outcome) ==
    /\ lpc[1] = "init"
    /\ IF respectRobotsTxt
       THEN /\ requests' = requests \cup {RobotsUrl(qSeedUrl)}
            /\ eDisallowed' = outcome.disallowed
       ELSE /\ outcome = NoRules
            /\ UNCHANGED <<requests, eDisallowed>>
    /\ lpc' = [lpc EXCEPT ![1] = "loop"]
    /\ UNCHANGED runFixed
    /\ UNCHANGED countersSame
    /\ UNCHANGED queueSame
    /\ UNCHANGED restSame
    /\ UNCHANGED <<fOpts, fAborted, fpc, fUrl, fAttempt, fCur, fRedirects, fChain,
                   fChecked, fSent, fStatus, fBlocked, fOutcome>>
    /\ UNCHANGED runRest

\* one turn of crawlLoop: the next entry is skipped, or processUrl calls
\* fetcher.fetch(item.url) and the loop waits for it
RunLoop ==
    /\ lpc[1] = "loop"
    /\ fpc = "idle"
    /\ \E n \in {next(This)} :
        IF ~n.found
        THEN /\ lpc' = [lpc EXCEPT ![1] = "rewrite"]
             /\ queue' = n.queue
             /\ pendingUrls' = n.pendingUrls
             /\ UNCHANGED <<fpc, fUrl>>
        ELSE IF ~isAllowed(n.queue[n.key].url)
        THEN /\ queue' = skip([This EXCEPT !.queue = n.queue], n.key,
                              "Blocked by robots.txt")
             /\ pendingUrls' = n.pendingUrls
             /\ UNCHANGED <<lpc, fpc, fUrl>>
        ELSE /\ queue' = n.queue
             /\ pendingUrls' = n.pendingUrls
             /\ lpc' = [lpc EXCEPT ![1] = "fetch"]
             /\ fUrl' = n.queue[n.key].url
             /\ fpc' = "delay"
    /\ UNCHANGED runFixed
    /\ UNCHANGED <<eDisallowed, qVia, qLast>>
    /\ UNCHANGED countersSame
    /\ UNCHANGED queueFixed
    /\ UNCHANGED restSame
    /\ UNCHANGED <<fOpts, fAborted, fAttempt, fCur, fRedirects, fChain, fChecked, fSent,
                   fStatus, requests, fBlocked, fOutcome>>
    /\ UNCHANGED runRest

\* processUrl: the fetch returned success: false
RunFailed(k) ==
    /\ lpc[1] = "fetch"
    /\ fpc = "done"
    /\ ~fOutcome.success
    /\ queue' = fail(This, k, fOutcome.error)
    /\ eErrors' = Append(eErrors, CrawlError(queue[k].url, fOutcome.error))
    /\ lpc' = [lpc EXCEPT ![1] = "loop"]
    /\ fpc' = "idle"
    /\ fOutcome' = NoOutcome
    /\ UNCHANGED runFixed
    /\ UNCHANGED <<eDisallowed, eStored, pagesProcessed, assetsProcessed>>
    /\ UNCHANGED <<qOptions, qSeedUrl, pendingUrls, qVia, qLast, qOps>>
    /\ UNCHANGED restSame
    /\ UNCHANGED callOver
    /\ UNCHANGED runRest

\* processUrl: the fetch returned a result; the final URL is registered,
\* the body is written under its local path, its links are enqueued and
\* the entry is complete
RunStored(k) ==
    /\ lpc[1] = "fetch"
    /\ fpc = "done"
    /\ fOutcome.success
    /\ \E finalUrl \in {fOutcome.finalUrl} :
       \E first \in {registerUrl(Registry, finalUrl)} :
       \E second \in {IF fOutcome.isRedirect
                       THEN registerUrl([urlToPath |-> first.urlToPath,
                                         pathToUrl |-> first.pathToUrl,
                                         usedPaths |-> first.usedPaths], queue[k].url)
                       ELSE first} :
       \E body \in {Web(finalUrl)} :
       \E Q \in {CASE body.type = "html" ->
                        processHtml(Frontier, body.links, finalUrl, queue[k].depth)
                  [] body.type = "css" ->
                        processCss(Frontier, body.links, finalUrl, queue[k].depth)
                  [] OTHER -> Frontier} :
           /\ urlToPath' = second.urlToPath
           /\ pathToUrl' = second.pathToUrl
           /\ usedPaths' = second.usedPaths
           /\ rLast' = [op |-> "registerUrl",
                        url |-> IF fOutcome.isRedirect THEN queue[k].url ELSE finalUrl,
                        ret |-> second.ret, threw |-> second.threw]
           /\ queue' = complete(ThisOf(Q), k)
           /\ pendingUrls' = Q.pendingUrls
           /\ qVia' = Q.via
           /\ qLast' = Q.last
           /\ eStored' = eStored \cup {normalizeUrl(finalUrl)}
           /\ eFiles' = (first.ret :> normalizeUrl(finalUrl)) @@ eFiles
           /\ eFinalOf' = (k :> normalizeUrl(finalUrl)) @@ eFinalOf
           /\ pagesProcessed' = IF body.type = "html" THEN pagesProcessed + 1
                                ELSE pagesProcessed
           /\ assetsProcessed' = IF body.type = "html" THEN assetsProcessed
                                 ELSE assetsProcessed + 1
    /\ lpc' = [lpc EXCEPT ![1] = "loop"]
    /\ fpc' = "idle"
    /\ fOutcome' = NoOutcome
    /\ UNCHANGED runFixed
    /\ UNCHANGED <<eDisallowed, eErrors>>
    /\ UNCHANGED queueFixed
    /\ UNCHANGED <<eRewritten, lResult, eCancelCalled, rOps>>
    /\ UNCHANGED callOver
    /\ UNCHANGED runRest

\* processUrl: storage.writeFile throws, the catch block fails the entry
RunStoreFailed(k) ==
    /\ lpc[1] = "fetch"
    /\ fpc = "done"
    /\ fOutcome.success
    /\ queue[k].url \in FailingWrites
    /\ queue' = fail(This, k, "thrown")
    /\ eErrors' = Append(eErrors, CrawlError(queue[k].url, "thrown"))
    /\ lpc' = [lpc EXCEPT ![1] = "loop"]
    /\ fpc' = "idle"
    /\ fOutcome' = NoOutcome
    /\ UNCHANGED runFixed
    /\ UNCHANGED <<eDisallowed, eStored, pagesProcessed, assetsProcessed>>
    /\ UNCHANGED <<qOptions, qSeedUrl, pendingUrls, qVia, qLast, qOps>>
    /\ UNCHANGED restSame
    /\ UNCHANGED callOver
    /\ UNCHANGED runRest

RunNext ==
    \/ Start(1)
    \/ InitFail(1)
    \/ \E outcome \in RobotsOutcomes(qSeedUrl) : RunRobots(outcome)
    \/ RunLoop
    \/ PoolAdd
    \/ PoolStart
    \/ SsrfCheck(seedDns)
    \/ Request
    \/ \E kind \in ThrownKinds : RequestFails(kind)
    \/ \E status \in {429, 403, 503} : ResponseBusy(status)
    \/ \E status \in {200, 404, 301}, hasLocation \in BOOLEAN : ResponseFinal(status, hasLocation)
    \/ \E target \in RedirectTargets \cup {BadUrl} : ResponseRedirect(target)
    \/ RedirectSsrfCheck(seedDns)
    \/ \E body \in BodyKinds : Body(body)
    \/ RetryStart
    \/ \E k \in Current : RunFailed(k)
    \/ \E k \in Current : RunStored(k)
    \/ \E k \in Current : RunStoreFailed(k)
    \/ RewriteDone(1)
    \/ RewriteFail(1)

SpecRun == RunInit /\ [][RunNext]_vars

(***************************************************************************)
(* Claims about the frontier                                               *)
(***************************************************************************)
\* C5: no two frontier entries have the same canonical URL (every entry is
\* stored under the canonical form of its own URL), and an add or addAsset
\* of a URL whose canonical form is already present, in whatever status,
\* returns false and leaves the frontier and the pending list as they were.
C5_CanonicalUrlsUnique ==
    /\ [](\A k \in DOMAIN queue :
            queue[k].normalizedUrl = k /\ normalizeUrl(queue[k].url) = k)
    /\ [][(/\ qOps' # qOps
           /\ qLast'.op \in {"add", "addAsset"}
           /\ normalizeUrl(qLast'.url) \in DOMAIN queue)
          => (/\ ~qLast'.ret
              /\ queue' = queue
              /\ pendingUrls' = pendingUrls)]_vars

\* an addAsset of another spelling of a page that is already complete was
\* refused
C5_Witness ==
    /\ qLast.op = "addAsset" /\ ~qLast.ret
    /\ normalizeUrl(qLast.url) \in DOMAIN queue
    /\ queue[normalizeUrl(qLast.url)].url # qLast.url
    /\ queue[normalizeUrl(qLast.url)].status = "complete"
    /\ qVia[normalizeUrl(qLast.url)] = "add"

\* C7: with unlimitedMode off the frontier never holds more than maxPages
\* entries, the seed included, and add and addAsset return false (changing
\* nothing) once it holds maxPages entries.
C7_FrontierWithinMaxPages ==
    /\ [](~qOptions.unlimitedMode => Cardinality(DOMAIN queue) <= qOptions.maxPages)
    /\ [][(/\ qOps' # qOps
           /\ qLast'.op \in {"add", "addAsset"}
           /\ ~qOptions.unlimitedMode
           /\ Cardinality(DOMAIN queue) >= qOptions.maxPages)
          => (/\ ~qLast'.ret
              /\ queue' = queue
              /\ pendingUrls' = pendingUrls)]_vars

\* the frontier was filled up to maxPages by calls, and then a new in-scope
\* page within the depth limit was refused
C7_Witness ==
    /\ ~qOptions.unlimitedMode
    /\ qOptions.maxPages >= 2
    /\ Cardinality(DOMAIN queue) = qOptions.maxPages
    /\ qLast.op = "add" /\ ~qLast.ret
    /\ normalizeUrl(qLast.url) # Null
    /\ normalizeUrl(qLast.url) \notin DOMAIN queue
    /\ qLast.depth <= qOptions.maxDepth
    /\ passesScope(This, normalizeUrl(qLast.url))
    /\ ~fileTypeDisabled(This, normalizeUrl(qLast.url))

\* the host of a URL equals, or is a subdomain of, an entry of the list
HostAllowed(url, list) ==
    \E d \in list :
        HostParts(url.hostname) = d \/ endsWithDomain(HostParts(url.hostname), d)

\* C9: with scope = custom and a customDomains list, add admits a page that
\* passes the depth, size, include/exclude and file-type checks if and only
\* if its host equals or is a subdomain of an entry of customDomains,
\* whatever the domain of the seed.
C9_CustomDomainsAreTheAllowList ==
    (qOptions.scope = "custom" /\ qOptions.customDomains.given) =>
        \A url \in QueueUrls \ {BadUrl}, depth \in PageDepths(qOptions) :
            LET normalized == normalizeUrl(url) IN
            (/\ ~isKnown(This, normalized)
             /\ ~tooDeep(This, depth, 0)
             /\ ~atMaxPages(This)
             /\ qOptions.includePaths # {} =>
                    \E pattern \in qOptions.includePaths : matchesPattern(normalized, pattern)
             /\ qOptions.excludePaths # {} =>
                    ~\E pattern \in qOptions.excludePaths : matchesPattern(normalized, pattern)
             /\ ~fileTypeDisabled(This, normalized))
            => (add(This, url, qSeedUrl, depth).ret
                    <=> HostAllowed(normalized, qOptions.customDomains.list))

(***************************************************************************)
(* Claims about an engine run                                              *)
(***************************************************************************)
\* C6: with unlimitedMode off, every frontier entry of an engine run that
\* add admitted (a page) has depth <= maxDepth, and every entry that
\* addAsset admitted has depth <= maxDepth + 5; no entry beyond these bounds
\* is in the frontier at any point of the run.
C6_DepthWithinLimits ==
    ~qOptions.unlimitedMode =>
        \A k \in DOMAIN queue :
            /\ qVia[k] = "add" => queue[k].depth <= qOptions.maxDepth
            /\ qVia[k] = "addAsset" => queue[k].depth <= qOptions.maxDepth + 5
            /\ qVia[k] = "seed" => queue[k].depth = 0

\* a page at depth maxDepth was fetched and stored: the in-scope page it
\* links to (one level too deep) was left out while there was room, and its
\* stylesheet was admitted at the page's own depth
C6_Witness ==
    /\ ~qOptions.unlimitedMode
    /\ normalizeUrl(U_p) \in DOMAIN queue
    /\ qVia[normalizeUrl(U_p)] = "add"
    /\ queue[normalizeUrl(U_p)].depth = qOptions.maxDepth
    /\ queue[normalizeUrl(U_p)].status = "complete"
    /\ normalizeUrl(U_p) \in eStored
    /\ passesScope(This, normalizeUrl(U_sub))
    /\ normalizeUrl(U_sub) \notin DOMAIN queue
    /\ Cardinality(DOMAIN queue \ {normalizeUrl(U_css)}) < qOptions.maxPages
    /\ qLast = [op |-> "addAsset", url |-> U_css, depth |-> qOptions.maxDepth, ret |-> TRUE]
    /\ queue[normalizeUrl(U_css)].depth = qOptions.maxDepth

\* the scope predicate the options configure for pages, relative to the seed
ScopeHolds(url) ==
    CASE qOptions.scope # "custom" -> isInScope(url, qSeedUrl, qOptions.scope)
      [] qOptions.scope = "custom" /\ qOptions.customDomains.given ->
            HostAllowed(url, qOptions.customDomains.list)
      [] OTHER -> isInScope(url, qSeedUrl, "same-domain")

\* the options with another scope, customDomains, includePaths or excludePaths
ScopeVariants(options) ==
    { [options EXCEPT !.scope = s] : s \in Scopes }
      \cup { [options EXCEPT !.scope = "custom", !.customDomains = c] :
                c \in CustomDomainLists }
      \cup { [options EXCEPT !.includePaths = {Pat_p}],
             [options EXCEPT !.excludePaths = {Pat_p}] }

\* http://a.test/i.png: U_img on the host of the seed
U_imgHere == Url("http", H_a, "", <<"/", "i", ".", "png">>, <<>>, "")

\* every entry admitted through add satisfies the configured scope predicate
C8_PagesAdmittedInScope ==
    \A k \in DOMAIN queue : qVia[k] = "add" => ScopeHolds(k)

\* what addAsset returns and leaves does not change with scope,
\* customDomains, includePaths or excludePaths, and whether it admits a new
\* URL does not change with the URL's host
C8_AssetsWhateverTheScope ==
    /\ \A url \in {U_img, U_sub} :
          LET r == addAsset(This, url, qSeedUrl, qOptions.maxDepth) IN
          \A o \in ScopeVariants(qOptions) :
              addAsset([This EXCEPT !.options = o], url, qSeedUrl, qOptions.maxDepth) = r
    /\ (~isKnown(This, normalizeUrl(U_img)) /\ ~isKnown(This, normalizeUrl(U_imgHere))) =>
          addAsset(This, U_img, qSeedUrl, qOptions.maxDepth).ret
              = addAsset(This, U_imgHere, qSeedUrl, qOptions.maxDepth).ret

\* C8 (as amended): scope is enforced for the pages add admits and not for
\* assets: every entry admitted through add satisfies the configured scope
\* predicate relative to the seed, and the outcome of addAsset does not
\* depend on the URL's host, on scope, on customDomains or on
\* includePaths/excludePaths.  Nothing is said of what is stored: a fetch
\* of an in-scope page may end, after a redirect, at an out-of-scope page,
\* whose body is stored.
C8_ScopeForPagesNotAssets ==
    /\ C8_PagesAdmittedInScope
    /\ C8_AssetsWhateverTheScope

\* with scope same-host the seed was stored: its image on another host is
\* in the frontier, and its link to a page on that host was refused though
\* there was room and the depth was within the limit
C8_Witness ==
    /\ qOptions.scope = "same-host"
    /\ normalizeUrl(U_seed) \in eStored
    /\ normalizeUrl(U_img) \in DOMAIN queue
    /\ qVia[normalizeUrl(U_img)] = "addAsset"
    /\ ~ScopeHolds(normalizeUrl(U_img))
    /\ qLast = [op |-> "add", url |-> U_other, depth |-> 1, ret |-> FALSE]
    /\ ~ScopeHolds(normalizeUrl(U_other))
    /\ normalizeUrl(U_other) \notin DOMAIN queue
    /\ ~atMaxPages(This)
    /\ ~tooDeep(This, qLast.depth, 0)

\* C8 (as stated): scope is enforced for pages but not for assets: every
\* entry admitted through add satisfies the configured scope predicate, an
\* out-of-scope page is never enqueued or stored, and the outcome of
\* addAsset does not depend on host, scope, customDomains or
\* includePaths/excludePaths.
C8_OutOfScopePagesNeverStored ==
    /\ C8_PagesAdmittedInScope
    /\ \A k \in DOMAIN queue : Web(k).type = "html" => ScopeHolds(k)
    /\ \A f \in eStored : Web(f).type = "html" => ScopeHolds(f)
    /\ C8_AssetsWhateverTheScope

\* C10: at every point of a run at most concurrency fetches are in flight:
\* at most concurrency frontier entries are in-progress, crawlLoop holds at
\* most concurrency unsettled processUrl tasks, and the fetcher's pool runs
\* at most concurrency requests at once.
C10_InFlightWithinConcurrency ==
    /\ Cardinality({ k \in DOMAIN queue : queue[k].status = "in-progress" })
          <= qOptions.concurrency
    /\ Cardinality({ k \in DOMAIN tasks : tasks[k].pc # "settled" })
          <= qOptions.concurrency
    /\ Cardinality({ k \in DOMAIN tasks : tasks[k].pc = "running" })
          <= qOptions.concurrency

\* the status transitions the state machine of the engine has
StatusTransitions ==
    { <<"pending", "running">>, <<"running", "paused">>, <<"paused", "running">>,
      <<"running", "complete">>, <<"running", "failed">>, <<"running", "cancelled">> }

\* C11: whatever the interleaving of start(), pause(), resume() and cancel()
\* with the crawl, the status only makes the transitions pending->running,
\* running->paused, paused->running, running->complete, running->failed and
\* running->cancelled (so complete, failed and cancelled are never left),
\* and a start() call begins a crawl only when the status is pending.
C11_StatusStateMachine ==
    /\ [][eStatus' # eStatus => <<eStatus, eStatus'>> \in StatusTransitions]_vars
    /\ [][(\E l \in Loops : lpc[l] = "none" /\ lpc'[l] = "init")
            => eStatus = "pending"]_vars

\* the status transitions an entry of the frontier has, retry apart
EntryTransitions ==
    { <<"pending", "in-progress">>, <<"in-progress", "complete">>,
      <<"in-progress", "failed">>, <<"in-progress", "skipped">> }

\* C12: under every sequence of UrlQueue operations the status of an entry
\* only changes along pending -> in-progress -> {complete, failed, skipped};
\* the only way back to pending is a retry of a failed entry whose retries
\* are below the limit, which increments retries and appends the entry to
\* the pending list; any other retry returns false and changes nothing.
C12_EntryStatusStateMachine ==
    /\ [][\A k \in DOMAIN queue :
            (k \in DOMAIN queue' /\ queue'[k].status # queue[k].status) =>
                \/ <<queue[k].status, queue'[k].status>> \in EntryTransitions
                \/ /\ queue[k].status = "failed"
                   /\ queue'[k].status = "pending"
                   /\ qLast'.op = "retry" /\ qLast'.url = k /\ qLast'.ret
                   /\ queue'[k].retries = queue[k].retries + 1
                   /\ pendingUrls' = Append(pendingUrls, k)]_vars
    /\ [][(qOps' # qOps /\ qLast'.op = "retry") =>
            IF qLast'.url \in DOMAIN queue /\ queue[qLast'.url].status = "failed"
            THEN qLast'.ret \/ (queue' = queue /\ pendingUrls' = pendingUrls)
            ELSE ~qLast'.ret /\ queue' = queue /\ pendingUrls' = pendingUrls]_vars

(***************************************************************************)
(* Claims about the path registry                                          *)
(***************************************************************************)
\* C13: after any sequence of registerUrl calls urlToPath is injective (no
\* two canonical URLs share a local path), pathToUrl is its exact inverse
\* and usedPaths is exactly its range; registering an already registered
\* canonical URL returns the existing path and changes none of the three.
C13_RegistryIsABijection ==
    /\ [](/\ \A u, v \in DOMAIN urlToPath : urlToPath[u] = urlToPath[v] => u = v
          /\ DOMAIN pathToUrl = { urlToPath[u] : u \in DOMAIN urlToPath }
          /\ \A u \in DOMAIN urlToPath : pathToUrl[urlToPath[u]] = u
          /\ usedPaths = { urlToPath[u] : u \in DOMAIN urlToPath })
    /\ [][(/\ rOps' # rOps
           /\ rLast'.op = "registerUrl"
           /\ normalizeUrl(rLast'.url) \in DOMAIN urlToPath)
          => (/\ ~rLast'.threw
              /\ rLast'.ret = urlToPath[normalizeUrl(rLast'.url)]
              /\ urlToPath' = urlToPath
              /\ pathToUrl' = pathToUrl
              /\ usedPaths' = usedPaths)]_vars

\* three URLs that all generate a.test/p.html are registered under three
\* paths, and the last call registered another spelling of one of them again
C13_Witness ==
    /\ {normalizeUrl(U_p), normalizeUrl(R_phtml), normalizeUrl(R_ps)} \subseteq DOMAIN urlToPath
    /\ generateLocalPath(U_p) = generateLocalPath(R_phtml)
    /\ generateLocalPath(U_p) = generateLocalPath(R_ps)
    /\ <<"a", ".", "test", "/", "p", "_", "2", ".", "html">> \in usedPaths
    /\ rLast.op = "registerUrl"
    /\ rLast.url = U_pAlias
    /\ rLast.ret = urlToPath[normalizeUrl(U_p)]
    /\ rOps = 4

(***************************************************************************)
(* Claims about what a run leaves behind                                   *)
(***************************************************************************)
\* C14: when the fetch of an entry with URL u was redirected to the final
\* URL f, then after processUrl canonical(u) and canonical(f) are both in
\* the path registry and map to one local path, the file that holds the
\* body fetched from f.
C14_RedirectSharesOnePath ==
    \A k \in DOMAIN eFinalOf :
        eFinalOf[k] # k =>
            /\ k \in DOMAIN urlToPath
            /\ eFinalOf[k] \in DOMAIN urlToPath
            /\ urlToPath[k] = urlToPath[eFinalOf[k]]
            /\ urlToPath[k] \in DOMAIN eFiles
            /\ eFiles[urlToPath[k]] = eFinalOf[k]

\* the category of the extension a local path is written with
PathCategory(file) ==
    LET lastDot == LastIndexOf(file, ".")
        lastSlash == LastIndexOf(file, "/")
    IN  IF lastDot > lastSlash
        THEN getMimeCategory(LowerAll(SubSeq(file, lastDot + 1, Len(file))))
        ELSE "other"

\* C15: when start() has returned from a run that was not cancelled, every
\* stored file whose local path has an HTML or a CSS extension has been
\* passed through its rewriter and written back; none is skipped.
C15_AllHtmlAndCssRewritten ==
    (~eCancelCalled /\ \E l \in Loops : lResult[l].built) =>
        \A file \in DOMAIN eFiles :
            PathCategory(file) \in {"html", "css"} => file \in eRewritten

\* C19: the CrawlResult start() returns has success = true if and only if,
\* when it is built, the errors list is empty and cancel() has not been
\* called.
C19_SuccessIffNoErrorsAndNotCancelled ==
    [][\A l \in Loops :
          (~lResult[l].built /\ lResult'[l].built) =>
              (lResult'[l].success <=> (Len(eErrors) = 0 /\ ~eCancelCalled))]_vars

\* a run that was cancelled returned a result without success though its
\* error list is empty
C19_Witness ==
    /\ lResult[1].built
    /\ ~lResult[1].success
    /\ lResult[1].errors = <<>>
    /\ eCancelCalled
    /\ eErrors = <<>>

\* the entries of the frontier in status failed
FailedEntries == { k \in DOMAIN queue : queue[k].status = "failed" }

\* the canonical URLs of the site crawled
SiteKeys == { normalizeUrl(u) : u \in {U_seed, U_p, U_sub, U_other, U_img, U_css} }

\* C20: a failure on one URL (a failed fetch or an exception while the
\* entry is processed) marks exactly that entry failed with its error
\* message and appends exactly one record with that entry's URL to the
\* errors list, so that errors.length is the number of failed entries at
\* all times; it does not stop the crawl: every entry that is pending is
\* still dispatched (unless start() itself failed).
C20_FailuresStayLocal ==
    /\ [](Len(eErrors) = Cardinality(FailedEntries))
    /\ [][(eErrors' # eErrors \/ FailedEntries' # FailedEntries) =>
            \E k \in DOMAIN queue \cap DOMAIN queue' :
                /\ queue[k].status = "in-progress"
                /\ queue'[k].status = "failed"
                /\ queue'[k].error # NoError
                /\ eErrors' = Append(eErrors, CrawlError(queue[k].url, queue'[k].error))
                /\ DOMAIN queue' = DOMAIN queue
                /\ \A j \in DOMAIN queue \ {k} : queue'[j] = queue[j]
                /\ pendingUrls' = pendingUrls
                /\ UNCHANGED <<eStatus, eAborted, lpc>>]_vars
    /\ \A k \in SiteKeys :
          (k \in DOMAIN queue /\ queue[k].status = "pending")
              ~> (\/ k \in DOMAIN queue /\ queue[k].status # "pending"
                  \/ eStatus = "failed")

\* with one fetch at a time, the fetch of a page failed and the image that
\* was pending behind it was fetched and stored all the same; the run ended
\* with one error
C20_Witness ==
    /\ qOptions.concurrency = 1
    /\ normalizeUrl(U_seed) \in DOMAIN queue
    /\ queue[normalizeUrl(U_seed)].status = "complete"
    /\ normalizeUrl(U_p) \in DOMAIN queue
    /\ queue[normalizeUrl(U_p)].status = "failed"
    /\ queue[normalizeUrl(U_p)].error = "fetch error"
    /\ eErrors = <<CrawlError(queue[normalizeUrl(U_p)].url, "fetch error")>>
    /\ normalizeUrl(U_img) \in DOMAIN queue
    /\ queue[normalizeUrl(U_img)].status = "complete"
    /\ lResult[1].built
    /\ ~lResult[1].success
    /\ eStatus = "complete"

(***************************************************************************)
(* Claims about link rewriting                                             *)
(***************************************************************************)
\* the canonical URL a reference written in a document at base denotes
CanonicalOf(value, base) == normalizeUrl(resolveUrl(value, base))

\* parseHtml extracted the reference and its URL has a local path
ExtractedAndMapped(value) ==
    LET resolved == ExtractedAs(value, hPageUrl) IN
    /\ resolved # Null
    /\ normalizeUrl(resolved) # Null
    /\ \E n \in DOMAIN hLinks.links :
          normalizeUrl(hLinks.links[n].url) = normalizeUrl(resolved)
    /\ normalizeUrl(resolved) \in DOMAIN hMap

\* C16: every reference parseHtml extracted from the page (resolved against
\* the page's base URL) whose URL has a local path in the map is replaced by
\* rewriteHtmlLinks with a link to that local file, whichever form the
\* reference is written in: absolute, root-relative, protocol-relative,
\* page-relative, or inside url() of an inline style.
C16_ExtractedReferencesAreRewritten ==
    (hLinks # <<>> /\ hOut # <<>>) =>
        \A n \in DOMAIN RefsOf(hHtml) :
            LET i == RefsOf(hHtml)[n][1]
                j == RefsOf(hHtml)[n][2]
                value == hHtml[i].values[j]
            IN  ExtractedAndMapped(value) =>
                    /\ hOut[i].values[j].kind = "local"
                    /\ ResolveFrom(hPagePath, hOut[i].values[j].path)
                           = hMap[CanonicalOf(value, hPageUrl)]

\* C17: for the page stored at h and a reference whose URL is registered
\* with local path p, the value rewriteHtmlLinks writes is
\* getRelativePath(h, p), and followed from h's directory it leads to p.
C17_RewrittenValueIsTheRelativePath ==
    hOut # <<>> =>
        \A n \in DOMAIN RefsOf(hHtml) :
            LET i == RefsOf(hHtml)[n][1]
                j == RefsOf(hHtml)[n][2]
                out == hOut[i].values[j]
            IN  out.kind = "local" =>
                    LET p == hMap[CanonicalOf(hHtml[i].values[j], hPageUrl)] IN
                    /\ out.path = getRelativePath(hPagePath, p)
                    /\ ResolveFrom(hPagePath, out.path) = p

\* the reference has no entry in the map
Unmapped(value, base) ==
    \/ CanonicalOf(value, base) = Null
    \/ CanonicalOf(value, base) \notin DOMAIN hMap

\* out is doc with nothing but mapped references changed
OnlyMappedChanged(doc, out, base) ==
    /\ Len(out) = Len(doc)
    /\ \A i \in DOMAIN doc :
          /\ out[i].node = doc[i].node
          /\ out[i].descriptors = doc[i].descriptors
          /\ DOMAIN out[i].values = DOMAIN doc[i].values
          /\ \A j \in DOMAIN doc[i].values :
                Unmapped(doc[i].values[j], base) => out[i].values[j] = doc[i].values[j]

WriteRejected == \E i \in DOMAIN eErrors : eErrors[i].error = "thrown"

\* C21: a rejected storage.writeFile is fatal to the run: start() does not
\* go on to a result, it ends in status failed.
C21_StorageFailureIsFatal ==
    WriteRejected =>
        \A l \in Loops : lpc[l] = "done" =>
            /\ eStatus = "failed"
            /\ ~lResult[l].built

\* C22: once cancel() has been called during a run, start() does not enter
\* rewriteAllLinks when crawlLoop returns, and no stored file is rewritten
\* from then on.
C22_CancelSkipsRewritePass ==
    [][eCancelCalled =>
          /\ \A l \in Loops : lpc[l] # "rewrite" => lpc'[l] # "rewrite"
          /\ eRewritten' = eRewritten]_vars

\* start() l has been called and has not returned
Running(l) == lpc[l] \notin {"none", "done"}

\* C23: if cancel() is called while start() is running, whatever is queued
\* or running in the pool, start() eventually returns.
C23_CancelledRunReturns ==
    \A l \in Loops : (eCancelCalled /\ Running(l)) ~> ~Running(l)

\* the SSRF guard rejects the seed URL under the resolver's answer
SeedRejected == ~validateUrlForSSRF(qSeedUrl, allowedProtocols, seedDns).safe

\* C24: if the SSRF guard rejects the seed URL, no HTTP request reaches the
\* seed host, and the run ends with no stored file, the seed's record at
\* index 0 of errors and a result that is not successful.
C24_RejectedSeedFailsTheRun ==
    SeedRejected =>
        /\ \A u \in requests : u.hostname # qSeedUrl.hostname
        /\ lResult[1].built =>
              /\ eFiles = <<>>
              /\ Len(lResult[1].errors) >= 1
              /\ lResult[1].errors[1].url = qSeedUrl
              /\ ~lResult[1].success

\* the entries robots.txt forbids, once start() has its rules
Forbidden ==
    { k \in DOMAIN queue : lpc[1] \notin {"none", "init"} /\ queue[k].url \in eDisallowed }

BlockedEntries ==
    { k \in DOMAIN queue :
        queue[k].status = "skipped" /\ queue[k].error = "Blocked by robots.txt" }

\* C25: an entry the robots rules forbid is never passed to the fetcher: it
\* is pending until the loop takes it and skipped with reason 'Blocked by
\* robots.txt' from then on, nothing is stored for it and no error is
\* recorded for it; without rules (robots.txt not fetched, or
\* respectRobotsTxt off) no entry is skipped for robots.txt.
C25_ForbiddenEntriesAreSkipped ==
    /\ \A k \in Forbidden :
          /\ queue[k].status \in {"pending", "skipped"}
          /\ queue[k].status = "skipped" => k \in BlockedEntries
          /\ fUrl # queue[k].url
          /\ k \notin DOMAIN eFinalOf
          /\ \A i \in DOMAIN eErrors : eErrors[i].url # queue[k].url
    /\ BlockedEntries \subseteq Forbidden

\* the stylesheet of the page the seed redirects to is forbidden and has
\* been skipped, the rest of the site was fetched
C25_Witness ==
    /\ eDisallowed = {U_css}
    /\ normalizeUrl(U_css) \in BlockedEntries
    /\ eFiles # <<>>
    /\ lResult[1].built

\* C26: normalizeUrl is idempotent: normalizing its own result returns that
\* result, also for several trailing slashes, default ports, an unsorted
\* query and a fragment.
C26_NormalizeIdempotent ==
    \A i \in DOMAIN nResults : i > 1 => nResults[i] = nResults[i - 1]

\* C27: one fetch call makes at most maxRetries = 5 attempts: the attempt
\* number goes up by one with every retry whatever caused it and never
\* passes 5, the fifth attempt is not followed by a retry, and a call the
\* pool has started ends with an outcome.
C27_AtMostFiveAttempts ==
    /\ [][/\ fAttempt' <= maxRetries
          /\ fAttempt' # fAttempt => (fAttempt' = fAttempt + 1 \/ fAttempt' = 1)
          /\ fAttempt = maxRetries => (fpc' # "retry-wait" /\ fAttempt' = fAttempt)]_vars
    /\ (fAttempt >= 1) ~> (fpc = "done" /\ fOutcome # NoOutcome)

\* the fifth attempt has ended the call
C27_Witness ==
    /\ fAttempt = maxRetries
    /\ fpc = "done"
    /\ fOutcome # NoOutcome

\* all five attempts of the last call were answered with 403, 503 or a
\* 200 bot-interstitial page
AllAttemptsBlocked == fBlocked = maxRetries

\* C28: a fetch whose five attempts were all answered with 403, 503 or a
\* bot-interstitial page ends in an error outcome, and processUrl fails the
\* entry, records the error and writes no body for it.
C28_BlockedFetchFailsTheEntry ==
    AllAttemptsBlocked =>
        /\ fpc = "done" => ~fOutcome.success
        /\ fpc = "idle" =>
              /\ queue[normalizeUrl(fUrl)].status = "failed"
              /\ \E i \in DOMAIN eErrors : eErrors[i].url = fUrl
              /\ normalizeUrl(fUrl) \notin DOMAIN eFinalOf

\* the codes an error outcome may carry
ErrorCodes == {"RATE_LIMITED", "TIMEOUT", "NETWORK", "UNKNOWN", "SSRF", "TOO_LARGE"}

\* C29: every error outcome of fetch has retryable = false and a code among
\* RATE_LIMITED, TIMEOUT, NETWORK, UNKNOWN, SSRF and TOO_LARGE; a size
\* rejection carries TOO_LARGE.
C29_ErrorOutcomesCarryACode ==
    (fpc = "done" /\ ~fOutcome.success) =>
        /\ ~fOutcome.retryable
        /\ fOutcome.code \in ErrorCodes
        /\ fOutcome.error = "File too large" => fOutcome.code = "TOO_LARGE"

\* C30: within one attempt at most maxRedirects redirects are followed: a
\* request only leaves with redirectCount <= maxRedirects; the redirect
\* that takes the count past maxRedirects ends the call with the
\* non-retryable error 'Too many redirects' and no request to its target,
\* then or later; a success has redirectChain.length <= maxRedirects and
\* isRedirect exactly when the chain is not empty.
C30_RedirectsBounded ==
    [][/\ fpc' \in {"request", "inflight"} =>
              (fRedirects' <= fOpts.maxRedirects /\ Len(fChain') = fRedirects')
       /\ (fOutcome' # fOutcome /\ fOutcome'.error = "Too many redirects") =>
              /\ fRedirects' = fOpts.maxRedirects + 1
              /\ ~fOutcome'.success /\ ~fOutcome'.retryable
              /\ fpc' = "done"
              /\ requests' = requests
       /\ fpc = "done" => requests' = requests
       /\ fOutcome'.success =>
              /\ Len(fOutcome'.redirectChain) <= fOpts.maxRedirects
              /\ fOutcome'.isRedirect <=> fOutcome'.redirectChain # <<>>]_vars

\* maxRedirects = 1 and a chain of two redirects: the second target was
\* never requested
C30_Witness ==
    /\ fpc = "done"
    /\ fOutcome.error = "Too many redirects"
    /\ fOpts.maxRedirects = 1
    /\ Len(fChain) = 2
    /\ fCur \notin requests

\* C31: no successful result has a body longer than maxFileSize: a declared
\* Content-Length above maxFileSize is rejected before any read, a running
\* size above maxFileSize cancels the reader, and both rejections are
\* non-retryable errors.
C31_BodyWithinMaxFileSize ==
    /\ bOutcome.success => bOutcome.bodyLength <= maxFileSize
    /\ SumOf(bKept) <= maxFileSize
    /\ (bDeclared.present /\ ~bDeclared.text.nan /\ bDeclared.text.value > maxFileSize) =>
          /\ bReads = 0
          /\ bpc = "done" => bOutcome = BodyErr("File too large", FALSE)
    /\ bTotal > maxFileSize =>
          /\ bCancelled
          /\ bOutcome = BodyErr("File too large", FALSE)

\* a response that declares less than it sends: the second chunk takes the
\* running size past maxFileSize and the reader is cancelled
C31_Witness ==
    /\ maxFileSize = 2
    /\ bDeclared = Header(Num(1))
    /\ bKept = <<2>>
    /\ bTotal = 3
    /\ bCancelled
    /\ bOutcome = BodyErr("File too large", FALSE)

\* C32: after a 429 from the host set rateLimitedUntil to T, no request leaves
\* for that host before T, whichever fetch call or retry sends it.
C32_NoRequestBeforeRateLimitEnds ==
    sentAt.until # 0 => sentAt.at >= sentAt.until

\* C33: once abort() has been called the fetcher sends no further request,
\* whether the call was waiting in its delay, in the pool or between retries.
C33_NoRequestAfterAbort ==
    [][~(fAborted /\ fpc = "request" /\ fpc' = "inflight")]_vars

\* an entry the loop may still take, and the loops that can take it
PendingKeys == { k \in DOMAIN queue : queue[k].status = "pending" }
InProgressKeys == { k \in DOMAIN queue : queue[k].status = "in-progress" }

\* C34: while the status is paused no entry goes from pending to in-progress
\* and no task is dropped; an entry that is in progress during the pause
\* still reaches complete or failed, and an entry that is pending while a
\* crawlLoop runs is taken once the crawl is resumed.
C34_PauseHoldsTheLoop ==
    /\ [][eStatus = "paused" =>
            /\ \A k \in PendingKeys : queue'[k].status # "in-progress"
            /\ \A k \in DOMAIN tasks :
                  \/ k \in DOMAIN tasks' /\ tasks'[k].pc # "dropped"
                  \/ tasks[k].pc = "settled"]_vars
    /\ \A k \in SiteKeys :
          (k \in InProgressKeys /\ eStatus = "paused")
              ~> (k \in DOMAIN queue /\ queue[k].status \in {"complete", "failed"})
    /\ \A k \in SiteKeys :
          (k \in PendingKeys /\ eStatus = "paused" /\ \E l \in Loops : Running(l))
              ~> (k \in DOMAIN queue /\ queue[k].status # "pending")

\* C35: whatever the interleaving of concurrent writeFile calls, totalBytes
\* never exceeds the ceiling writeFile checks against.
C35_TotalBytesWithinCheckedCeiling == sStats.totalBytes <= sCfgMax

\* C36: every request of a run, the robots.txt request of start() included,
\* goes to a URL the SSRF guard declared safe.
C36_EveryRequestOfARunIsGuarded ==
    \A u \in requests : validateUrlForSSRF(u, allowedProtocols, seedDns).safe

\* C37: an entry enqueued at depth d > 0 has an entry at depth d - 1 that was
\* in progress or complete before it was enqueued: a page link found at depth
\* k is enqueued at depth k + 1 and an asset at depth k, by the entry being
\* processed; the seed alone has no parent.
C37_EveryEntryHasAnAncestor ==
    [][/\ \A k \in DOMAIN queue' \ DOMAIN queue :
            /\ queue'[k].parentUrl # Null
            /\ \E j \in InProgressKeys :
                  queue'[k].depth = IF qVia'[k] = "add" THEN queue[j].depth + 1
                                    ELSE queue[j].depth
            /\ queue'[k].depth > 0 =>
                  \E j \in DOMAIN queue :
                      /\ queue[j].depth = queue'[k].depth - 1
                      /\ queue[j].status \in {"in-progress", "complete"}
       /\ \A k \in DOMAIN queue :
            queue[k].parentUrl = Null <=> (k = normalizeUrl(qSeedUrl) /\ queue[k].depth = 0)
      ]_vars

\* the stylesheet of a page of depth 1 is in the frontier at depth 1, and a
\* page linked from that page at depth 2
C37_Witness ==
    /\ normalizeUrl(U_css) \in DOMAIN queue
    /\ queue[normalizeUrl(U_css)].depth = 1
    /\ qVia[normalizeUrl(U_css)] = "addAsset"
    /\ normalizeUrl(U_sub) \in DOMAIN queue
    /\ queue[normalizeUrl(U_sub)].depth = 2
    /\ queue[normalizeUrl(U_p)].status = "complete"

\* where in the pending list an entry was enqueued last
LatestEnqueue(list, k) ==
    CHOOSE i \in 1..Len(list) : list[i] = k /\ \A j \in (i + 1)..Len(list) : list[j] # k

\* C38: next() returns the pending entry whose latest enqueue is the oldest
\* and marks it in-progress, leaving the other entries as they are; it
\* returns null only when no entry is pending.  An entry that retry put back
\* is served after every entry enqueued before the retry.
C38_NextIsFifo ==
    [][(qOps' # qOps /\ qLast'.op = "next") =>
          IF PendingKeys = {}
          THEN ~qLast'.ret /\ queue' = queue
          ELSE /\ qLast'.ret
               /\ qLast'.url \in PendingKeys
               /\ queue' = [queue EXCEPT ![qLast'.url].status = "in-progress"]
               /\ \A j \in PendingKeys \ {qLast'.url} :
                     LatestEnqueue(pendingUrls, qLast'.url) < LatestEnqueue(pendingUrls, j)
      ]_vars

\* C39: in an engine run every canonical URL is dispatched at most once: an
\* entry is never pending again once next() has taken it, a processUrl task
\* is only started for an entry that goes from pending to in-progress, and a
\* URL that is already in the frontier is not enqueued again (its entry keeps
\* its key, URL, depth and parent).
C39_DispatchedAtMostOnce ==
    [][/\ DOMAIN queue \subseteq DOMAIN queue'
       /\ \A k \in DOMAIN queue :
            /\ queue'[k].status = "pending" => queue[k].status = "pending"
            /\ (queue'[k].status = "in-progress" /\ queue[k].status # "in-progress") =>
                  (queue[k].status = "pending" /\ k \notin DOMAIN tasks)
            /\ queue'[k].normalizedUrl = k
            /\ queue'[k].url = queue[k].url
            /\ queue'[k].depth = queue[k].depth
            /\ queue'[k].parentUrl = queue[k].parentUrl
            /\ queue'[k].retries = 0
       /\ \A k \in DOMAIN tasks' \ DOMAIN tasks :
            k \in PendingKeys /\ queue'[k].status = "in-progress"
       /\ Len(pendingUrls') > Len(pendingUrls) =>
            \A i \in 1..Len(pendingUrls') :
                \A j \in 1..Len(pendingUrls') : pendingUrls'[i] = pendingUrls'[j] => i = j
      ]_vars

\* a page two levels down links back to the seed: the seed, already complete,
\* was found again and refused
C39_Witness ==
    /\ qLast.op = "add" /\ qLast.url = U_seed /\ ~qLast.ret
    /\ queue[normalizeUrl(U_seed)].status = "complete"
    /\ normalizeUrl(U_sub) \in DOMAIN queue
    /\ queue[normalizeUrl(U_sub)].status = "complete"

\* the entries next() has handed out
Dispatched == { k \in DOMAIN queue : queue[k].status # "pending" }

\* C40: with unlimitedMode off, a run that is not cancelled, is resumed after
\* every pause and whose fetches all return comes to an end; crawlLoop hands
\* out at most maxPages entries, and it only exits when no entry is pending or
\* in progress.
C40_RunTerminates ==
    /\ \A l \in Loops : (~qOptions.unlimitedMode /\ Running(l)) ~> ~Running(l)
    /\ [](~qOptions.unlimitedMode => Cardinality(Dispatched) <= qOptions.maxPages)
    /\ [][\A l \in Loops :
            (~qOptions.unlimitedMode /\ lpc[l] = "drain" /\ lpc'[l] = "rewrite") =>
                (PendingKeys = {} /\ InProgressKeys = {})]_vars

====
